---- MODULE Spec2Model ----
(***************************************************************************)
(* Model of the GNSS observation estimator of INSTINCT                     *)
(* (src/Navigation/GNSS/Positioning/ObservationEstimator.hpp) and of the   *)
(* process-wide time source next to it (src/util/Time/TimeBase.cpp), of    *)
(* the configuration map (src/internal/ConfigManager.hpp), of the program  *)
(* entry processCommandLineArguments (src/internal/AppLogic.cpp) and of    *)
(* the json form of ImuPos (src/NodeData/IMU/ImuPos.cpp).                  *)
(*                                                                         *)
(* Numbers.  The code computes in double; the model computes in integers.  *)
(* Estimates are plain integers [m] or [m/s].  Variances contain the       *)
(* factor C^2 (about 9e16), which no bounded integer holds, so a variance  *)
(* is the exact pair [m2 |-> a, c2 |-> b] that stands for a + C^2 * b.     *)
(* Positions, velocities and the line of sight are one-dimensional.        *)
(***************************************************************************)
EXTENDS Integers, Sequences, FiniteSets, TLC

(***************************************************************************)
(* Bounds of the input space.                                              *)
(***************************************************************************)
\* clock biases and drifts (receiver, satellite, per-system) range over 0..MaxClock
MaxClock == 1
\* delays returned by the correction providers range over 0..MaxDelay
MaxDelay == 1
\* times handed to the time source and readings of the steady clock range over 0..MaxTime
MaxTime == 2
\* standard deviations and the satellite position variance range over 0..MaxStdDev
MaxStdDev == 1

\* Largest value of the 'duration' option [s]
MaxDuration == 2

(***************************************************************************)
(* Program constants and closed sets.                                      *)
(***************************************************************************)
\* InsConst<>::C, speed of light [m/s]
C == 299792458

\* Number of slots of the receiver array (ReceiverType::ReceiverType_COUNT)
ReceiverType_COUNT == 1

ObservationDifference == {"NoDifference", "SingleDifference", "DoubleDifference"}

\* GnssObs::ObservationType without the ObservationType_COUNT sentinel
\* util::time::Mode
TimeModes == {"REAL_TIME", "POST_PROCESSING"}

ObservationTypes == {"Pseudorange", "Carrier", "Doppler"}

IonosphereModels == {"None", "Klobuchar"}

TroposphereModels == {"None", "Saastamoinen"}

SatelliteSystems == {"GPS", "GAL"}

Frequencies == {"G01", "E01"}

\* The signals of the epoch: one GPS L1 signal and one Galileo E1 signal
SatSigIds == {[freq |-> "G01", satNum |-> 5], [freq |-> "E01", satNum |-> 12]}

\* SatSigId::freq()
freq(satSigId) == satSigId.freq

\* Frequency::getSatSys()
getSatSys(f) == IF f = "G01" THEN "GPS" ELSE "GAL"

\* A bool used as a factor, as in value * (obsDiff != DoubleDifference)
AsNumber(b) == IF b THEN 1 ELSE 0

Abs(x) == IF x < 0 THEN -x ELSE x

(***************************************************************************)
(* Variances: a + C^2 * b as the pair [m2 |-> a, c2 |-> b].                *)
(***************************************************************************)
Variance(a, b) == [m2 |-> a, c2 |-> b]

VarPlus(v, w) == [m2 |-> v.m2 + w.m2, c2 |-> v.c2 + w.c2]

VarMinus(v, w) == [m2 |-> v.m2 - w.m2, c2 |-> v.c2 - w.c2]

VARIABLES
    observations,        \* the observation set of the epoch, annotated in place
    receivers,           \* the receiver array, index 0..ReceiverType_COUNT-1
    providers,           \* what the external correction functions return for this epoch
    _ionosphereModel,    \* ObservationEstimator::_ionosphereModel
    _troposphereModels,  \* ObservationEstimator::_troposphereModels
    lastCall,            \* difference mode and model configuration of the last returned call
    aborted,             \* a call left calcObservationEstimates by an exception
    timeMode,            \* util::time: timeMode (TimeBase.cpp)
    currentTime,         \* util::time: currentTime, 0 is the empty InsTime
    currentTimeComputer, \* util::time: steady clock reading taken when currentTime was set
    steadyClock,         \* std::chrono::steady_clock::now()
    vm,                  \* ConfigManager::vm, the map which stores all options
    got,                 \* what the last call of ConfigManager::Get returned
    pc,                  \* where processCommandLineArguments stands
    interruptThread,     \* where the interrupt thread of the No-GUI run stands
    countDown,           \* seconds Sleep::countDownSeconds still has to wait
    executor,            \* state of the FlowExecutor
    nodes,               \* flow file whose nodes the NodeManager holds, "" when it holds none
    callbacksEnabled,    \* NodeManager: callbacks of the nodes are enabled
    calls,               \* calls processCommandLineArguments and its thread have made, in order
    exitCode,            \* value processCommandLineArguments returned
    imuPos,              \* an ImuPos object that is written to json
    json,                \* the json object j
    restored             \* an ImuPos object that is read from json

estimatorVars == <<observations, receivers, providers, _ionosphereModel, _troposphereModels,
                   lastCall, aborted>>

timeVars == <<timeMode, currentTime, currentTimeComputer, steadyClock>>

appVars == <<vm, got, pc, interruptThread, countDown, executor, nodes, callbacksEnabled, calls,
             exitCode>>

jsonVars == <<imuPos, json, restored>>

vars == <<observations, receivers, providers, _ionosphereModel, _troposphereModels, lastCall,
          aborted, timeMode, currentTime, currentTimeComputer, steadyClock, vm, got, pc,
          interruptThread, countDown, executor, nodes, callbacksEnabled, calls, exitCode,
          imuPos, json, restored>>

(***************************************************************************)
(* External collaborators.  Their code is outside the estimator; the model *)
(* keeps what they return for the inputs of this epoch in `providers`.     *)
(***************************************************************************)
\* calcTroposphericDelayAndMapping: zenith delays and mapping factors of the selected model
calcTroposphericDelayAndMapping(satSigId, r, troposphereModels) ==
    IF troposphereModels = "None"
    THEN [providers.tropo[satSigId][r] EXCEPT !.ZHD = 0, !.ZWD = 0]
    ELSE providers.tropo[satSigId][r]

\* calcIonosphericDelay: slant delay of the selected model
calcIonosphericDelay(satSigId, r, ionosphereModel) ==
    IF ionosphereModel = "None" THEN 0 ELSE providers.iono[satSigId][r]

\* calcSagnacCorrection(receiver.e_pos, recvObs.e_satPos())
calcSagnacCorrection(satSigId, r) == providers.sagnac[satSigId][r]

\* calcSagnacRateCorrection(receiver.e_pos, recvObs.e_satPos(), receiver.e_vel, recvObs.e_satVel())
calcSagnacRateCorrection(satSigId, r) == providers.sagnacRate[satSigId][r]

\* GnssMeasurementErrorModel::psrMeasErrorVar: non-increasing in elevation and in CN0
psrMeasErrorVar(satSys, elevation, cn0) ==
    Variance((IF satSys = "GPS" THEN 1 ELSE 2) * (200 - elevation - cn0), 0)

\* GnssMeasurementErrorModel::carrierMeasErrorVar
carrierMeasErrorVar(satSys, elevation, cn0) ==
    Variance((IF satSys = "GPS" THEN 1 ELSE 2) * (150 - elevation - cn0), 0)

\* GnssMeasurementErrorModel::psrRateMeasErrorVar
psrRateMeasErrorVar(f, freqNum, elevation, cn0) ==
    Variance((IF f = "G01" THEN 1 ELSE 3) * (170 - elevation - cn0), 0)

\* GnssMeasurementErrorModel::codeBiasErrorVar: fixed, independent of geometry
codeBiasErrorVar == Variance(7, 0)

\* ionoErrorVar(dpsr_I_r_s, freq, freqNum)
ionoErrorVar(dpsr_I_r_s, f, freqNum) ==
    Variance((IF f = "G01" THEN 1 ELSE 2) * dpsr_I_r_s * dpsr_I_r_s, 0)

\* tropoErrorVar(dpsr_T_r_s, satElevation)
tropoErrorVar(dpsr_T_r_s, elevation) ==
    Variance(IF dpsr_T_r_s = 0 THEN 0 ELSE 100 - elevation, 0)

(***************************************************************************)
(* calcObservationEstimates, per signal/receiver pair.                     *)
(***************************************************************************)
\* The cached terms with the coordinate difference taken as the geometric range
CalcTerms_SignedRange(satSigId, r, receiver, recvObs, ionosphereModel, troposphereModels) ==
    LET tropo_r_s == calcTroposphericDelayAndMapping(satSigId, r, troposphereModels)
    IN  [rho_r_s          |-> recvObs.e_satPos - receiver.e_pos,
         tropoZenithDelay |-> tropo_r_s,
         dpsr_T_r_s       |-> tropo_r_s.ZHD * tropo_r_s.zhdMappingFactor
                              + tropo_r_s.ZWD * tropo_r_s.zwdMappingFactor,
         dpsr_I_r_s       |-> calcIonosphericDelay(satSigId, r, ionosphereModel),
         dpsr_ie_r_s      |-> calcSagnacCorrection(satSigId, r)]

\* The cached terms with the wet mapping factor added instead of the mapped wet delay
CalcTerms_WetMappingFactorAdded(satSigId, r, receiver, recvObs, ionosphereModel, troposphereModels) ==
    LET tropo_r_s == calcTroposphericDelayAndMapping(satSigId, r, troposphereModels)
    IN  [rho_r_s          |-> Abs(recvObs.e_satPos - receiver.e_pos),
         tropoZenithDelay |-> tropo_r_s,
         dpsr_T_r_s       |-> tropo_r_s.ZHD * tropo_r_s.zhdMappingFactor
                              + tropo_r_s.zwdMappingFactor,
         dpsr_I_r_s       |-> calcIonosphericDelay(satSigId, r, ionosphereModel),
         dpsr_ie_r_s      |-> calcSagnacCorrection(satSigId, r)]

\* The cached terms with the two mapping factors exchanged in the slant troposphere delay
CalcTerms_MappingFactorsExchanged(satSigId, r, receiver, recvObs, ionosphereModel, troposphereModels) ==
    LET tropo_r_s == calcTroposphericDelayAndMapping(satSigId, r, troposphereModels)
    IN  [rho_r_s          |-> Abs(recvObs.e_satPos - receiver.e_pos),
         tropoZenithDelay |-> tropo_r_s,
         dpsr_T_r_s       |-> tropo_r_s.ZHD * tropo_r_s.zwdMappingFactor
                              + tropo_r_s.ZWD * tropo_r_s.zhdMappingFactor,
         dpsr_I_r_s       |-> calcIonosphericDelay(satSigId, r, ionosphereModel),
         dpsr_ie_r_s      |-> calcSagnacCorrection(satSigId, r)]

\* The cached terms of one pair (lines 71-88)
CalcTerms(satSigId, r, receiver, recvObs, ionosphereModel, troposphereModels) ==
    LET tropo_r_s == calcTroposphericDelayAndMapping(satSigId, r, troposphereModels)
    IN  [rho_r_s          |-> Abs(recvObs.e_satPos - receiver.e_pos),
         tropoZenithDelay |-> tropo_r_s,
         dpsr_T_r_s       |-> tropo_r_s.ZHD * tropo_r_s.zhdMappingFactor
                              + tropo_r_s.ZWD * tropo_r_s.zwdMappingFactor,
         dpsr_I_r_s       |-> calcIonosphericDelay(satSigId, r, ionosphereModel),
         dpsr_ie_r_s      |-> calcSagnacCorrection(satSigId, r)]

\* interFrequencyBias.contains(freq) ? interFrequencyBias.at(freq).value : 0.0
InterFrequencyBiasValue(receiver, f) ==
    IF f \in DOMAIN receiver.interFrequencyBias THEN receiver.interFrequencyBias[f].value ELSE 0

\* Pseudorange with the receiver clock bias added in every mode
PseudorangeEstimate_RecvClockAlways(receiver, recvObs, terms, satSys, f, obsDiff) ==
    terms.rho_r_s
    + terms.dpsr_ie_r_s
    + terms.dpsr_T_r_s
    + terms.dpsr_I_r_s
    + C * (receiver.recvClk.bias.value
           - recvObs.satClock.bias * AsNumber(obsDiff = "NoDifference")
           + receiver.recvClk.sysTimeDiffBias[satSys].value
           + InterFrequencyBiasValue(receiver, f))

\* Pseudorange with the inter-frequency bias dropped in DoubleDifference
PseudorangeEstimate_NoInterFrequencyBiasInDouble(receiver, recvObs, terms, satSys, f, obsDiff) ==
    terms.rho_r_s
    + terms.dpsr_ie_r_s
    + terms.dpsr_T_r_s
    + terms.dpsr_I_r_s
    + C * (receiver.recvClk.bias.value * AsNumber(obsDiff # "DoubleDifference")
           - recvObs.satClock.bias * AsNumber(obsDiff = "NoDifference")
           + receiver.recvClk.sysTimeDiffBias[satSys].value
           + InterFrequencyBiasValue(receiver, f) * AsNumber(obsDiff # "DoubleDifference"))

\* case GnssObs::Pseudorange (lines 103-112)
PseudorangeEstimate(receiver, recvObs, terms, satSys, f, obsDiff) ==
    terms.rho_r_s
    + terms.dpsr_ie_r_s
    + terms.dpsr_T_r_s
    + terms.dpsr_I_r_s
    + C * (receiver.recvClk.bias.value * AsNumber(obsDiff # "DoubleDifference")
           - recvObs.satClock.bias * AsNumber(obsDiff = "NoDifference")
           + receiver.recvClk.sysTimeDiffBias[satSys].value
           + InterFrequencyBiasValue(receiver, f))

\* Carrier with the satellite clock bias kept in SingleDifference
CarrierEstimate_SatClockInSingleDifference(receiver, recvObs, terms, satSys, f, obsDiff) ==
    terms.rho_r_s
    + terms.dpsr_ie_r_s
    + terms.dpsr_T_r_s
    - terms.dpsr_I_r_s
    + C * (receiver.recvClk.bias.value * AsNumber(obsDiff # "DoubleDifference")
           - recvObs.satClock.bias * AsNumber(obsDiff # "DoubleDifference")
           + receiver.recvClk.sysTimeDiffBias[satSys].value)

\* Carrier with the ionospheric delay added as for the pseudorange
CarrierEstimate_IonoAdded(receiver, recvObs, terms, satSys, f, obsDiff) ==
    terms.rho_r_s
    + terms.dpsr_ie_r_s
    + terms.dpsr_T_r_s
    + terms.dpsr_I_r_s
    + C * (receiver.recvClk.bias.value * AsNumber(obsDiff # "DoubleDifference")
           - recvObs.satClock.bias * AsNumber(obsDiff = "NoDifference")
           + receiver.recvClk.sysTimeDiffBias[satSys].value)

\* case GnssObs::Carrier (lines 127-136)
CarrierEstimate(receiver, recvObs, terms, satSys, f, obsDiff) ==
    terms.rho_r_s
    + terms.dpsr_ie_r_s
    + terms.dpsr_T_r_s
    - terms.dpsr_I_r_s
    + C * (receiver.recvClk.bias.value * AsNumber(obsDiff # "DoubleDifference")
           - recvObs.satClock.bias * AsNumber(obsDiff = "NoDifference")
           + receiver.recvClk.sysTimeDiffBias[satSys].value)

\* Doppler with the satellite clock drift subtracted in every mode
DopplerEstimate_SatClockAlways(satSigId, r, receiver, recvObs, terms, satSys, obsDiff) ==
    recvObs.e_pLOS * (recvObs.e_satVel - receiver.e_vel)
    - calcSagnacRateCorrection(satSigId, r)
    + C * (receiver.recvClk.drift.value * AsNumber(obsDiff # "DoubleDifference")
           - recvObs.satClock.drift
           + receiver.recvClk.sysTimeDiffDrift[satSys].value * AsNumber(obsDiff = "NoDifference"))

\* Doppler with the tropospheric delay added as for the ranges
DopplerEstimate_WithTroposphere(satSigId, r, receiver, recvObs, terms, satSys, obsDiff) ==
    recvObs.e_pLOS * (recvObs.e_satVel - receiver.e_vel)
    - calcSagnacRateCorrection(satSigId, r)
    + terms.dpsr_T_r_s
    + C * (receiver.recvClk.drift.value * AsNumber(obsDiff # "DoubleDifference")
           - recvObs.satClock.drift * AsNumber(obsDiff = "NoDifference")
           + receiver.recvClk.sysTimeDiffDrift[satSys].value * AsNumber(obsDiff = "NoDifference"))

\* case GnssObs::Doppler (lines 150-155)
DopplerEstimate(satSigId, r, receiver, recvObs, terms, satSys, obsDiff) ==
    recvObs.e_pLOS * (recvObs.e_satVel - receiver.e_vel)
    - calcSagnacRateCorrection(satSigId, r)
    + C * (receiver.recvClk.drift.value * AsNumber(obsDiff # "DoubleDifference")
           - recvObs.satClock.drift * AsNumber(obsDiff = "NoDifference")
           + receiver.recvClk.sysTimeDiffDrift[satSys].value * AsNumber(obsDiff = "NoDifference"))

\* The measurement error model's variance of one observable (lines 113, 137, 156)
BaselineVar(obsType, satSys, f, freqNum, elevation, cn0) ==
    CASE obsType = "Pseudorange" -> psrMeasErrorVar(satSys, elevation, cn0)
      [] obsType = "Carrier"     -> carrierMeasErrorVar(satSys, elevation, cn0)
      [] obsType = "Doppler"     -> psrRateMeasErrorVar(f, freqNum, elevation, cn0)

\* The NoDifference block with the code bias variance also added to the carrier
SatelliteSideVar_CodeBiasOnCarrier(obsType, observation, receiver, recvObs, terms, f) ==
    LET atmosphere ==
            IF obsType \in {"Pseudorange", "Carrier"}
            THEN VarPlus(VarPlus(Variance(observation.satPosVar, 0),
                                 ionoErrorVar(terms.dpsr_I_r_s, f, observation.freqNum)),
                         tropoErrorVar(terms.dpsr_T_r_s, recvObs.satElevation))
            ELSE Variance(0, 0)
        codeBias ==
            IF obsType \in {"Pseudorange", "Carrier"} THEN codeBiasErrorVar ELSE Variance(0, 0)
        interFreq ==
            IF obsType = "Pseudorange" /\ f \in DOMAIN receiver.interFrequencyBias
            THEN Variance(receiver.interFrequencyBias[f].stdDev * receiver.interFrequencyBias[f].stdDev, 0)
            ELSE Variance(0, 0)
    IN  VarPlus(VarPlus(atmosphere, codeBias), interFreq)

\* What the block if (obsDiff == NoDifference) adds to measVar (lines 172-195)
SatelliteSideVar(obsType, observation, receiver, recvObs, terms, f) ==
    LET atmosphere ==
            IF obsType \in {"Pseudorange", "Carrier"}
            THEN VarPlus(VarPlus(Variance(observation.satPosVar, 0),
                                 ionoErrorVar(terms.dpsr_I_r_s, f, observation.freqNum)),
                         tropoErrorVar(terms.dpsr_T_r_s, recvObs.satElevation))
            ELSE Variance(0, 0)
        codeBias ==
            IF obsType = "Pseudorange" THEN codeBiasErrorVar ELSE Variance(0, 0)
        interFreq ==
            IF obsType = "Pseudorange" /\ f \in DOMAIN receiver.interFrequencyBias
            THEN Variance(receiver.interFrequencyBias[f].stdDev * receiver.interFrequencyBias[f].stdDev, 0)
            ELSE Variance(0, 0)
    IN  VarPlus(VarPlus(atmosphere, codeBias), interFreq)

\* The receiver clock variance taken from the bias standard deviations for every observable
RecvClockVar_BiasStdDevForDoppler(obsType, receiver, satSys) ==
    Variance(0, receiver.recvClk.bias.stdDev * receiver.recvClk.bias.stdDev
                + receiver.recvClk.sysTimeDiffBias[satSys].stdDev
                  * receiver.recvClk.sysTimeDiffBias[satSys].stdDev)

\* What the block if (obsDiff != DoubleDifference) adds to measVar (lines 196-214)
RecvClockVar(obsType, receiver, satSys) ==
    IF obsType \in {"Pseudorange", "Carrier"}
    THEN Variance(0, receiver.recvClk.bias.stdDev * receiver.recvClk.bias.stdDev
                     + receiver.recvClk.sysTimeDiffBias[satSys].stdDev
                       * receiver.recvClk.sysTimeDiffBias[satSys].stdDev)
    ELSE Variance(0, receiver.recvClk.drift.stdDev * receiver.recvClk.drift.stdDev
                     + receiver.recvClk.sysTimeDiffDrift[satSys].stdDev
                       * receiver.recvClk.sysTimeDiffDrift[satSys].stdDev)

\* measVar with the receiver clock variance added in every mode but NoDifference
MeasVar_ClockVarUnlessNoDifference(obsType, observation, receiver, recvObs, terms, satSys, f, obsDiff) ==
    LET cn0 == IF recvObs.CN0.has_value THEN recvObs.CN0.value ELSE 1
        baseline == BaselineVar(obsType, satSys, f, observation.freqNum, recvObs.satElevation, cn0)
        afterNoDifference ==
            IF obsDiff = "NoDifference"
            THEN VarPlus(baseline, SatelliteSideVar(obsType, observation, receiver, recvObs, terms, f))
            ELSE baseline
    IN  IF obsDiff # "NoDifference"
        THEN VarPlus(afterNoDifference, RecvClockVar(obsType, receiver, satSys))
        ELSE afterNoDifference

\* measVar with the satellite-side contributions assigned to it instead of added
MeasVar_SatelliteSideAssigned(obsType, observation, receiver, recvObs, terms, satSys, f, obsDiff) ==
    LET cn0 == IF recvObs.CN0.has_value THEN recvObs.CN0.value ELSE 1
        baseline == BaselineVar(obsType, satSys, f, observation.freqNum, recvObs.satElevation, cn0)
        afterNoDifference ==
            IF obsDiff = "NoDifference"
            THEN SatelliteSideVar(obsType, observation, receiver, recvObs, terms, f)
            ELSE baseline
    IN  IF obsDiff # "DoubleDifference"
        THEN VarPlus(afterNoDifference, RecvClockVar(obsType, receiver, satSys))
        ELSE afterNoDifference

\* measVar with the baseline added to the measVar the entry already holds
MeasVar_Accumulated(obsType, observation, receiver, recvObs, terms, satSys, f, obsDiff) ==
    LET cn0 == IF recvObs.CN0.has_value THEN recvObs.CN0.value ELSE 1
        baseline == VarPlus(recvObs.obs[obsType].measVar,
                            BaselineVar(obsType, satSys, f, observation.freqNum, recvObs.satElevation, cn0))
        afterNoDifference ==
            IF obsDiff = "NoDifference"
            THEN VarPlus(baseline, SatelliteSideVar(obsType, observation, receiver, recvObs, terms, f))
            ELSE baseline
    IN  IF obsDiff # "DoubleDifference"
        THEN VarPlus(afterNoDifference, RecvClockVar(obsType, receiver, satSys))
        ELSE afterNoDifference

\* measVar with an absent CN0 taken as a strong signal instead of 1.0
MeasVar_AbsentCn0Strong(obsType, observation, receiver, recvObs, terms, satSys, f, obsDiff) ==
    LET cn0 == IF recvObs.CN0.has_value THEN recvObs.CN0.value ELSE 100
        baseline == BaselineVar(obsType, satSys, f, observation.freqNum, recvObs.satElevation, cn0)
        afterNoDifference ==
            IF obsDiff = "NoDifference"
            THEN VarPlus(baseline, SatelliteSideVar(obsType, observation, receiver, recvObs, terms, f))
            ELSE baseline
    IN  IF obsDiff # "DoubleDifference"
        THEN VarPlus(afterNoDifference, RecvClockVar(obsType, receiver, satSys))
        ELSE afterNoDifference

\* measVar of one observable after the switch and the two variance blocks (lines 113-214)
MeasVar(obsType, observation, receiver, recvObs, terms, satSys, f, obsDiff) ==
    LET cn0 == IF recvObs.CN0.has_value THEN recvObs.CN0.value ELSE 1
        baseline == BaselineVar(obsType, satSys, f, observation.freqNum, recvObs.satElevation, cn0)
        afterNoDifference ==
            IF obsDiff = "NoDifference"
            THEN VarPlus(baseline, SatelliteSideVar(obsType, observation, receiver, recvObs, terms, f))
            ELSE baseline
    IN  IF obsDiff # "DoubleDifference"
        THEN VarPlus(afterNoDifference, RecvClockVar(obsType, receiver, satSys))
        ELSE afterNoDifference

\* The switch without a case for Doppler: the estimate of a Doppler entry stays as it was
Estimate_DopplerFallsThrough(obsType, satSigId, r, receiver, recvObs, terms, satSys, f, obsDiff) ==
    CASE obsType = "Pseudorange" -> PseudorangeEstimate(receiver, recvObs, terms, satSys, f, obsDiff)
      [] obsType = "Carrier"     -> CarrierEstimate(receiver, recvObs, terms, satSys, f, obsDiff)
      [] OTHER                   -> recvObs.obs[obsType].estimate

\* estimate of one observable (switch obsType, lines 100-167)
Estimate(obsType, satSigId, r, receiver, recvObs, terms, satSys, f, obsDiff) ==
    CASE obsType = "Pseudorange" -> PseudorangeEstimate(receiver, recvObs, terms, satSys, f, obsDiff)
      [] obsType = "Carrier"     -> CarrierEstimate(receiver, recvObs, terms, satSys, f, obsDiff)
      [] obsType = "Doppler"     -> DopplerEstimate(satSigId, r, receiver, recvObs, terms, satSys, obsDiff)

\* The loop body storing the residual of every observable in place of its raw measurement
AnnotateRecvObs_ResidualStored(satSigId, r, observation, recvs, ionosphereModel, troposphereModels, obsDiff) ==
    LET recvObs  == observation.recvObs[r]
        receiver == recvs[r]
        f        == freq(satSigId)
        satSys   == getSatSys(f)
        terms    == CalcTerms(satSigId, r, receiver, recvObs, ionosphereModel, troposphereModels)
    IN  [recvObs EXCEPT
            !.terms = terms,
            !.obs = [obsType \in DOMAIN recvObs.obs |->
                        [recvObs.obs[obsType] EXCEPT
                            !.measurement = @ - Estimate(obsType, satSigId, r, receiver, recvObs, terms,
                                                         satSys, f, obsDiff),
                            !.estimate = Estimate(obsType, satSigId, r, receiver, recvObs, terms,
                                                  satSys, f, obsDiff),
                            !.measVar = MeasVar(obsType, observation, receiver, recvObs, terms,
                                                satSys, f, obsDiff)]]]

\* One pass of the loop body over a receiver observation (lines 67-217)
AnnotateRecvObs(satSigId, r, observation, recvs, ionosphereModel, troposphereModels, obsDiff) ==
    LET recvObs  == observation.recvObs[r]
        receiver == recvs[r]
        f        == freq(satSigId)
        satSys   == getSatSys(f)
        terms    == CalcTerms(satSigId, r, receiver, recvObs, ionosphereModel, troposphereModels)
    IN  [recvObs EXCEPT
            !.terms = terms,
            !.obs = [obsType \in DOMAIN recvObs.obs |->
                        [recvObs.obs[obsType] EXCEPT
                            !.estimate = Estimate(obsType, satSigId, r, receiver, recvObs, terms,
                                                  satSys, f, obsDiff),
                            !.measVar = MeasVar(obsType, observation, receiver, recvObs, terms,
                                                satSys, f, obsDiff)]]]

\* receivers.at(r) throws std::out_of_range for a slot the receiver array does not hold (line 69)
ReceiverSlotMissing(recvs, r) == r \notin DOMAIN recvs

\* sysTimeDiffBias.at(satSys) and sysTimeDiffDrift.at(satSys) throw for a system without entry
\* (lines 110, 134, 154)
SysTimeDiffMissing(obsType, receiver, satSys) ==
    IF obsType = "Doppler"
    THEN satSys \notin DOMAIN receiver.recvClk.sysTimeDiffDrift
    ELSE satSys \notin DOMAIN receiver.recvClk.sysTimeDiffBias

\* The loop body reusing the slant troposphere delay cached by a signal annotated before
LoopBody_TroposphereReused(run, satSigId, r, recvs, ionosphereModel, troposphereModels, obsDiff) ==
    LET observation == run.observations.signals[satSigId]
        done == {s \in DOMAIN run.observations.signals \ {satSigId} :
                    /\ r \in DOMAIN run.observations.signals[s].recvObs
                    /\ run.observations.signals[s].recvObs[r].terms.rho_r_s # 0}
        own == AnnotateRecvObs(satSigId, r, observation, recvs,
                               ionosphereModel, troposphereModels, obsDiff)
        shift == IF done = {}
                 THEN 0
                 ELSE run.observations.signals[CHOOSE s \in done : TRUE].recvObs[r].terms.dpsr_T_r_s
                      - own.terms.dpsr_T_r_s
    IN  [observations |->
             [run.observations EXCEPT !.signals[satSigId].recvObs[r] =
                 [own EXCEPT !.terms.dpsr_T_r_s = @ + shift,
                             !.obs = [obsType \in DOMAIN own.obs |->
                                         IF obsType = "Doppler"
                                         THEN own.obs[obsType]
                                         ELSE [own.obs[obsType] EXCEPT !.estimate = @ + shift]]]],
         threw |-> FALSE]

\* The body of the receiver loop for the pair (satSigId, r), on the set as the iterations
\* before left it (lines 67-217).  run.threw tells that an exception left the function.
\* The exception of line 69 is thrown before anything of the pair is written; the one of the
\* switch after the terms of the pair were cached (lines 71-88).  The two per-system tables
\* hold the same systems, so the first observable visited throws.
LoopBody(run, satSigId, r, recvs, ionosphereModel, troposphereModels, obsDiff) ==
    LET observation == run.observations.signals[satSigId]
        recvObs     == observation.recvObs[r]
        satSys      == getSatSys(freq(satSigId))
    IN  IF ReceiverSlotMissing(recvs, r)
        THEN [run EXCEPT !.threw = TRUE]
        ELSE IF \E obsType \in DOMAIN recvObs.obs : SysTimeDiffMissing(obsType, recvs[r], satSys)
        THEN [observations |->
                  [run.observations EXCEPT !.signals[satSigId].recvObs[r].terms =
                      CalcTerms(satSigId, r, recvs[r], recvObs, ionosphereModel, troposphereModels)],
              threw |-> TRUE]
        ELSE [observations |->
                  [run.observations EXCEPT !.signals[satSigId].recvObs[r] =
                      AnnotateRecvObs(satSigId, r, observation, recvs,
                                      ionosphereModel, troposphereModels, obsDiff)],
              threw |-> FALSE]

\* The receiver loop bounded by the size of the receiver array instead of observation.recvObs
RECURSIVE ReceiverLoop_BoundedByReceivers(_, _, _, _, _, _, _)
ReceiverLoop_BoundedByReceivers(run, satSigId, r, recvs, ionosphereModel, troposphereModels, obsDiff) ==
    IF run.threw \/ r >= Cardinality(DOMAIN recvs)
    THEN run
    ELSE ReceiverLoop_BoundedByReceivers(
             LoopBody(run, satSigId, r, recvs, ionosphereModel, troposphereModels, obsDiff),
             satSigId, r + 1, recvs, ionosphereModel, troposphereModels, obsDiff)

\* for (size_t r = 0; r < observation.recvObs.size(); r++), from index r on (lines 65-218)
RECURSIVE ReceiverLoop(_, _, _, _, _, _, _)
ReceiverLoop(run, satSigId, r, recvs, ionosphereModel, troposphereModels, obsDiff) ==
    IF run.threw \/ r >= Cardinality(DOMAIN run.observations.signals[satSigId].recvObs)
    THEN run
    ELSE ReceiverLoop(LoopBody(run, satSigId, r, recvs, ionosphereModel, troposphereModels, obsDiff),
                      satSigId, r + 1, recvs, ionosphereModel, troposphereModels, obsDiff)

\* for (auto& [satSigId, observation] : observations.signals), visiting the signals that are
\* left in the sequence order (lines 60-219)
RECURSIVE SignalLoop(_, _, _, _, _, _)
SignalLoop(run, order, recvs, ionosphereModel, troposphereModels, obsDiff) ==
    IF run.threw \/ order = <<>>
    THEN run
    ELSE SignalLoop(ReceiverLoop(run, Head(order), 0, recvs, ionosphereModel, troposphereModels, obsDiff),
                    Tail(order), recvs, ionosphereModel, troposphereModels, obsDiff)

\* The orders in which the iteration over observations.signals, an unordered container, can
\* visit the signals (line 60)
SignalOrders(obsSet) ==
    {order \in [1..Cardinality(DOMAIN obsSet.signals) -> DOMAIN obsSet.signals] :
        \A i, j \in DOMAIN order : order[i] = order[j] => i = j}

\* calcObservationEstimates (lines 52-220) when the signals are visited in the given order:
\* the observation set as the call leaves it, and whether it left by an exception
calcObservationEstimatesIn(order, obsSet, recvs, ionosphereModel, troposphereModels, obsDiff) ==
    SignalLoop([observations |-> obsSet, threw |-> FALSE], order, recvs,
               ionosphereModel, troposphereModels, obsDiff)

\* calcObservationEstimates (lines 52-220) on an observation set whose references are all
\* held by the receiver states: the annotated observation set, every pair annotated from
\* its own receiver observation
calcObservationEstimates(obsSet, recvs, ionosphereModel, troposphereModels, obsDiff) ==
    [obsSet EXCEPT !.signals =
        [satSigId \in DOMAIN obsSet.signals |->
            [obsSet.signals[satSigId] EXCEPT !.recvObs =
                [r \in DOMAIN obsSet.signals[satSigId].recvObs |->
                    AnnotateRecvObs(satSigId, r, obsSet.signals[satSigId], recvs,
                                    ionosphereModel, troposphereModels, obsDiff)]]]]

(***************************************************************************)
(* The inputs of an epoch, as the upstream collector hands them over.      *)
(***************************************************************************)
\* An UncertainValue: value with standard deviation
Uncertain(value, stdDev) == [value |-> value, stdDev |-> stdDev]

\* Receiver<ReceiverType>: position, velocity, clock and inter-frequency biases
MakeReceiver(bias, drift, sysTimeDiffBias, sysTimeDiffDrift, interFrequencyBias) ==
    [e_pos |-> 5,
     e_vel |-> 2,
     recvClk |-> [bias |-> bias,
                  drift |-> drift,
                  sysTimeDiffBias |-> sysTimeDiffBias,
                  sysTimeDiffDrift |-> sysTimeDiffDrift],
     interFrequencyBias |-> interFrequencyBias]

\* Observations::SignalObservation::ReceiverSpecificData as constructed upstream:
\* satellite data and raw measurements present, terms and estimates still default
MakeRecvObs(satSigId, satClock) ==
    LET gps == freq(satSigId) = "G01"
    IN  [e_satPos     |-> IF gps THEN 25 ELSE -17,
         e_satVel     |-> IF gps THEN 9 ELSE 4,
         e_pLOS       |-> IF gps THEN 1 ELSE -1,
         satClock     |-> satClock,
         satElevation |-> IF gps THEN 60 ELSE 30,
         CN0          |-> IF gps THEN [has_value |-> TRUE, value |-> 40]
                                 ELSE [has_value |-> FALSE, value |-> 0],
         terms        |-> [rho_r_s |-> 0,
                           tropoZenithDelay |-> [ZHD |-> 0, ZWD |-> 0,
                                                 zhdMappingFactor |-> 0, zwdMappingFactor |-> 0],
                           dpsr_T_r_s |-> 0, dpsr_I_r_s |-> 0, dpsr_ie_r_s |-> 0],
         obs          |-> [obsType \in ObservationTypes |->
                              [measurement |-> CASE obsType = "Pseudorange" -> IF gps THEN 31 ELSE 33
                                                 [] obsType = "Carrier"     -> IF gps THEN 30 ELSE 32
                                                 [] obsType = "Doppler"     -> IF gps THEN 6 ELSE -3,
                               estimate    |-> 0,
                               measVar     |-> Variance(0, 0)]]]

\* Observations: every signal with one receiver observation per receiver slot
MakeObservations(satClock, satPosVar) ==
    [signals |-> [satSigId \in SatSigIds |->
        [freqNum   |-> -128,
         satPosVar |-> satPosVar[satSigId],
         recvObs   |-> [r \in 0..(ReceiverType_COUNT - 1) |-> MakeRecvObs(satSigId, satClock[satSigId])]]]]

\* Observations in which signal satSigId carries slots[satSigId] receiver observations
MakeObservationsWithSlots(satClock, satPosVar, slots) ==
    [signals |-> [satSigId \in SatSigIds |->
        [freqNum   |-> -128,
         satPosVar |-> satPosVar[satSigId],
         recvObs   |-> [r \in 0..(slots[satSigId] - 1) |-> MakeRecvObs(satSigId, satClock[satSigId])]]]]

\* What the external correction functions return for the geometry of this epoch
MakeProviders(iono, ZHD, ZWD) ==
    [tropo      |-> [satSigId \in SatSigIds |-> [r \in 0..(ReceiverType_COUNT - 1) |->
                        [ZHD |-> ZHD, ZWD |-> ZWD,
                         zhdMappingFactor |-> IF freq(satSigId) = "G01" THEN 3 ELSE 2,
                         zwdMappingFactor |-> IF freq(satSigId) = "G01" THEN 2 ELSE 5]]],
     iono       |-> [satSigId \in SatSigIds |-> [r \in 0..(ReceiverType_COUNT - 1) |-> iono[satSigId]]],
     sagnac     |-> [satSigId \in SatSigIds |-> [r \in 0..(ReceiverType_COUNT - 1) |->
                        IF freq(satSigId) = "G01" THEN 3 ELSE 4]],
     sagnacRate |-> [satSigId \in SatSigIds |-> [r \in 0..(ReceiverType_COUNT - 1) |->
                        IF freq(satSigId) = "G01" THEN 1 ELSE 2]]]

\* The reference inputs: every term present and non-zero
BaseClock == Uncertain(1, 1)

BaseSysTimeDiff == [satSys \in SatelliteSystems |-> IF satSys = "GPS" THEN Uncertain(0, 0) ELSE Uncertain(1, 1)]

BaseInterFrequencyBias == [f \in {"G01"} |-> Uncertain(1, 2)]

BaseSatClock == [satSigId \in SatSigIds |-> [bias |-> 1, drift |-> 1]]

BaseSatPosVar == [satSigId \in SatSigIds |-> IF freq(satSigId) = "G01" THEN 2 ELSE 3]

BaseIono == [satSigId \in SatSigIds |-> IF freq(satSigId) = "G01" THEN 6 ELSE 4]

\* Flow files the 'load' option may name
FlowFiles == {"flow/Default.flow"}

\* The options after FetchConfigs: 'nogui', 'sigterm' and 'duration' carry their default when
\* the command line does not give them, 'load' is stored only when given (load = "" here)
MakeOptions(nogui, sigterm, duration, load) ==
    IF load = ""
    THEN [nogui |-> nogui, sigterm |-> sigterm, duration |-> duration]
    ELSE [nogui |-> nogui, sigterm |-> sigterm, duration |-> duration, load |-> load]

\* Eigen::Vector3d and Eigen::Quaterniond values
Vector3d == {<<0, 0, 0>>, <<1, 2, 3>>}

Quaterniond == {[w |-> 1, x |-> 0, y |-> 0, z |-> 0], [w |-> 0, x |-> 1, y |-> 0, z |-> 0]}

\* A default-constructed ImuPos: no lever arms, platform and body frame aligned
DefaultImuPos ==
    [positionAccel_b    |-> <<0, 0, 0>>,
     positionGyro_b     |-> <<0, 0, 0>>,
     positionMag_b      |-> <<0, 0, 0>>,
     quaternionAccel_bp |-> [w |-> 1, x |-> 0, y |-> 0, z |-> 0],
     quaternionGyro_bp  |-> [w |-> 1, x |-> 0, y |-> 0, z |-> 0],
     quaternionMag_bp   |-> [w |-> 1, x |-> 0, y |-> 0, z |-> 0]]

\* ImuPos objects
ImuPosValues ==
    [positionAccel_b : Vector3d, positionGyro_b : Vector3d, positionMag_b : Vector3d,
     quaternionAccel_bp : Quaterniond, quaternionGyro_bp : Quaterniond,
     quaternionMag_bp : Quaterniond]

\* A json object without keys
EmptyJson == [key \in {} |-> <<>>]

\* The program before processCommandLineArguments has read its options
StartApp(options) ==
    /\ vm = options
    /\ got = ""
    /\ pc = "processCommandLineArguments"
    /\ interruptThread = "not started"
    /\ countDown = 0
    /\ executor = "idle"
    /\ nodes = ""
    /\ callbacksEnabled = TRUE
    /\ calls = <<>>
    /\ exitCode = "none"

\* An ImuPos to write, an empty json object and a default-constructed ImuPos to read into
StartImuPos(pos) ==
    /\ imuPos = pos
    /\ json = EmptyJson
    /\ restored = DefaultImuPos

\* The estimator and the time source before the first call, for given inputs
StartEstimator(recvs, obsSet, prov) ==
    /\ receivers = recvs
    /\ observations = obsSet
    /\ providers = prov
    /\ _ionosphereModel = "Klobuchar"
    /\ _troposphereModels = "Saastamoinen"
    /\ lastCall = [obsDiff |-> "none", ionosphereModel |-> "none", troposphereModels |-> "none"]
    /\ aborted = FALSE
    /\ timeMode = "REAL_TIME"
    /\ currentTime = 0
    /\ currentTimeComputer = 0
    /\ steadyClock = 0

\* The state before the first call, for given inputs
Start(recvs, obsSet, prov) ==
    /\ StartEstimator(recvs, obsSet, prov)
    /\ StartApp(MakeOptions(FALSE, FALSE, 0, ""))
    /\ StartImuPos(DefaultImuPos)

\* The estimator with the reference inputs
StartBase ==
    StartEstimator([r \in 0..(ReceiverType_COUNT - 1) |->
                       MakeReceiver(BaseClock, BaseClock, BaseSysTimeDiff, BaseSysTimeDiff,
                                    BaseInterFrequencyBias)],
                   MakeObservations(BaseSatClock, BaseSatPosVar),
                   MakeProviders(BaseIono, 2, 1))

\* Epochs that differ in the clock biases of receiver, satellites and systems
InitClockBias ==
    \E recvBias \in 0..MaxClock, satBias \in [SatSigIds -> 0..MaxClock],
       sysBias \in [SatelliteSystems -> 0..MaxClock] :
        Start([r \in 0..(ReceiverType_COUNT - 1) |->
                  MakeReceiver(Uncertain(recvBias, 1), BaseClock,
                               [satSys \in SatelliteSystems |-> Uncertain(sysBias[satSys], 1)],
                               BaseSysTimeDiff, BaseInterFrequencyBias)],
              MakeObservations([satSigId \in SatSigIds |-> [bias |-> satBias[satSigId], drift |-> 1]],
                               BaseSatPosVar),
              MakeProviders(BaseIono, 2, 1))

\* Epochs that differ in the clock drifts of receiver, satellites and systems
InitClockDrift ==
    \E recvDrift \in 0..MaxClock, satDrift \in [SatSigIds -> 0..MaxClock],
       sysDrift \in [SatelliteSystems -> 0..MaxClock] :
        Start([r \in 0..(ReceiverType_COUNT - 1) |->
                  MakeReceiver(BaseClock, Uncertain(recvDrift, 1), BaseSysTimeDiff,
                               [satSys \in SatelliteSystems |-> Uncertain(sysDrift[satSys], 1)],
                               BaseInterFrequencyBias)],
              MakeObservations([satSigId \in SatSigIds |-> [bias |-> 1, drift |-> satDrift[satSigId]]],
                               BaseSatPosVar),
              MakeProviders(BaseIono, 2, 1))

\* Epochs that differ in the delays the correction providers return
InitAtmosphere ==
    \E iono \in [SatSigIds -> 0..MaxDelay], ZHD \in 0..MaxDelay, ZWD \in 0..MaxDelay :
        Start([r \in 0..(ReceiverType_COUNT - 1) |->
                  MakeReceiver(BaseClock, BaseClock, BaseSysTimeDiff, BaseSysTimeDiff,
                               BaseInterFrequencyBias)],
              MakeObservations(BaseSatClock, BaseSatPosVar),
              MakeProviders(iono, ZHD, ZWD))

\* Epochs that differ in the inter-frequency bias entries of the receiver
InitInterFrequencyBias ==
    \E held \in SUBSET Frequencies :
        \E ifb \in [held -> [value : 0..MaxClock, stdDev : 0..MaxStdDev]] :
            Start([r \in 0..(ReceiverType_COUNT - 1) |->
                      MakeReceiver(BaseClock, BaseClock, BaseSysTimeDiff, BaseSysTimeDiff, ifb)],
                  MakeObservations(BaseSatClock, BaseSatPosVar),
                  MakeProviders(BaseIono, 2, 1))

\* Epochs that differ in the uncertainties of the clocks and of the satellite position
InitStdDev ==
    \E biasStdDev \in 0..MaxStdDev, driftStdDev \in 0..MaxStdDev,
       sysStdDev \in [SatelliteSystems -> 0..MaxStdDev], posVar \in 0..MaxStdDev :
        Start([r \in 0..(ReceiverType_COUNT - 1) |->
                  MakeReceiver(Uncertain(1, biasStdDev), Uncertain(1, driftStdDev),
                               [satSys \in SatelliteSystems |-> Uncertain(1, sysStdDev[satSys])],
                               [satSys \in SatelliteSystems |-> Uncertain(1, sysStdDev[satSys] + 1)],
                               BaseInterFrequencyBias)],
              MakeObservations(BaseSatClock, [satSigId \in SatSigIds |-> posVar]),
              MakeProviders(BaseIono, 2, 1))

\* Epochs whose observation set refers to receiver slots, per-system time-difference entries or
\* inter-frequency bias entries that the receiver states may not hold
InitContract ==
    \E systems \in SUBSET SatelliteSystems, held \in SUBSET Frequencies,
       slots \in [SatSigIds -> ReceiverType_COUNT..(ReceiverType_COUNT + 1)] :
        Start([r \in 0..(ReceiverType_COUNT - 1) |->
                  MakeReceiver(BaseClock, BaseClock,
                               [satSys \in systems |-> BaseSysTimeDiff[satSys]],
                               [satSys \in systems |-> BaseSysTimeDiff[satSys]],
                               [f \in held |-> Uncertain(1, 2)])],
              MakeObservationsWithSlots(BaseSatClock, BaseSatPosVar, slots),
              MakeProviders(BaseIono, 2, 1))

\* Epochs of a receiver at rest at the origin with satellites at rest at a distance of
\* 20 000 000 m on either side, all clocks and Sagnac corrections zero, and providers whose
\* delays are zero or not
InitScenario ==
    \E side \in [SatSigIds -> {-1, 1}], iono \in [SatSigIds -> 0..MaxDelay],
       ZHD \in 0..MaxDelay, ZWD \in 0..MaxDelay :
        Start([r \in 0..(ReceiverType_COUNT - 1) |->
                  [MakeReceiver(Uncertain(0, 1), Uncertain(0, 1),
                                [satSys \in SatelliteSystems |-> Uncertain(0, 1)],
                                [satSys \in SatelliteSystems |-> Uncertain(0, 1)],
                                [f \in {"G01"} |-> Uncertain(0, 2)])
                   EXCEPT !.e_pos = 0, !.e_vel = 0]],
              [signals |-> [satSigId \in SatSigIds |->
                  [MakeObservations([s \in SatSigIds |-> [bias |-> 0, drift |-> 0]],
                                    BaseSatPosVar).signals[satSigId]
                   EXCEPT !.recvObs = [r \in 0..(ReceiverType_COUNT - 1) |->
                       [@[r] EXCEPT !.e_satPos = side[satSigId] * 20000000,
                                    !.e_satVel = 0,
                                    !.e_pLOS = side[satSigId]]]]]],
              [MakeProviders(iono, ZHD, ZWD)
               EXCEPT !.sagnac = [satSigId \in SatSigIds |-> [r \in 0..(ReceiverType_COUNT - 1) |-> 0]],
                      !.sagnacRate = [satSigId \in SatSigIds |-> [r \in 0..(ReceiverType_COUNT - 1) |-> 0]]])

\* Epochs that differ in the inter-frequency bias entries held, for runs in which the
\* process-wide time source is used next to the estimator
InitFrame ==
    \E held \in SUBSET Frequencies :
        Start([r \in 0..(ReceiverType_COUNT - 1) |->
                  MakeReceiver(BaseClock, BaseClock, BaseSysTimeDiff, BaseSysTimeDiff,
                               [f \in held |-> Uncertain(1, 2)])],
              MakeObservations(BaseSatClock, BaseSatPosVar),
              MakeProviders(BaseIono, 2, 1))

\* Epochs that differ in the observables each signal carries
InitObservables ==
    \E present \in [SatSigIds -> SUBSET ObservationTypes] :
        Start([r \in 0..(ReceiverType_COUNT - 1) |->
                  MakeReceiver(BaseClock, BaseClock, BaseSysTimeDiff, BaseSysTimeDiff,
                               BaseInterFrequencyBias)],
              [signals |-> [satSigId \in SatSigIds |->
                  [MakeObservations(BaseSatClock, BaseSatPosVar).signals[satSigId]
                   EXCEPT !.recvObs = [r \in 0..(ReceiverType_COUNT - 1) |->
                       [@[r] EXCEPT !.obs = [obsType \in present[satSigId] |-> @[obsType]]]]]]],
              MakeProviders(BaseIono, 2, 1))

\* Command lines that differ in the options 'nogui', 'sigterm', 'duration' and 'load'
InitApp ==
    \E nogui \in BOOLEAN, sigterm \in BOOLEAN, duration \in 0..MaxDuration,
       load \in FlowFiles \cup {""} :
        /\ StartBase
        /\ StartApp(MakeOptions(nogui, sigterm, duration, load))
        /\ StartImuPos(DefaultImuPos)

\* ImuPos objects that differ in their six fields
InitImuPos ==
    \E pos \in ImuPosValues :
        /\ StartBase
        /\ StartApp(MakeOptions(FALSE, FALSE, 0, ""))
        /\ StartImuPos(pos)

Init ==
    \/ InitClockBias
    \/ InitClockDrift
    \/ InitAtmosphere
    \/ InitInterFrequencyBias
    \/ InitStdDev

(***************************************************************************)
(* Operations.                                                             *)
(***************************************************************************)
\* A call of calcObservationEstimates on the observation set with difference mode obsDiff.
\* An exception that leaves the call is not caught: the run ends there.
CalcObservationEstimates(obsDiff) ==
    /\ ~aborted
    /\ \E order \in SignalOrders(observations) :
        \E run \in {calcObservationEstimatesIn(order, observations, receivers, _ionosphereModel,
                                               _troposphereModels, obsDiff)} :
            /\ observations' = run.observations
            /\ aborted' = run.threw
            /\ lastCall' = IF run.threw
                           THEN lastCall
                           ELSE [obsDiff |-> obsDiff,
                                 ionosphereModel |-> _ionosphereModel,
                                 troposphereModels |-> _troposphereModels]
    /\ UNCHANGED <<receivers, providers, _ionosphereModel, _troposphereModels>>
    /\ UNCHANGED timeVars
    /\ UNCHANGED <<appVars, jsonVars>>

\* ShowGuiWidgets: the user selects another ionosphere model
SelectIonosphereModel(model) ==
    /\ ~aborted
    /\ model # _ionosphereModel
    /\ _ionosphereModel' = model
    /\ UNCHANGED <<observations, receivers, providers, _troposphereModels, lastCall, aborted>>
    /\ UNCHANGED timeVars
    /\ UNCHANGED <<appVars, jsonVars>>

\* ShowGuiWidgets: the user selects another troposphere model
SelectTroposphereModel(model) ==
    /\ ~aborted
    /\ model # _troposphereModels
    /\ _troposphereModels' = model
    /\ UNCHANGED <<observations, receivers, providers, _ionosphereModel, lastCall, aborted>>
    /\ UNCHANGED timeVars
    /\ UNCHANGED <<appVars, jsonVars>>

Next ==
    \/ \E obsDiff \in ObservationDifference : CalcObservationEstimates(obsDiff)
    \/ \E model \in IonosphereModels : SelectIonosphereModel(model)
    \/ \E model \in TroposphereModels : SelectTroposphereModel(model)

Spec == Init /\ [][Next]_vars

\* GetCurrentTime that lets the time run on in post-processing mode as well
GetCurrentTime_RunsInPostProcessing ==
    IF currentTime = 0
    THEN currentTime
    ELSE currentTime + (steadyClock - currentTimeComputer)

\* util::time::GetCurrentTime: the stored time in post-processing mode or while no time is
\* set (the empty InsTime is 0), otherwise the stored time plus the steady-clock time that has
\* elapsed since currentTimeComputer
GetCurrentTime ==
    IF timeMode = "POST_PROCESSING" \/ currentTime = 0
    THEN currentTime
    ELSE currentTime + (steadyClock - currentTimeComputer)

\* util::time::SetMode
SetMode(mode) ==
    /\ timeMode' = mode
    /\ UNCHANGED <<currentTime, currentTimeComputer, steadyClock>>
    /\ UNCHANGED estimatorVars
    /\ UNCHANGED <<appVars, jsonVars>>

\* SetCurrentTime that also takes over a time equal to the stored one
SetCurrentTime_NotEarlierAccepted(insTime) ==
    /\ IF insTime >= currentTime
       THEN /\ currentTimeComputer' = steadyClock
            /\ currentTime' = insTime
       ELSE UNCHANGED <<currentTime, currentTimeComputer>>
    /\ UNCHANGED <<timeMode, steadyClock>>
    /\ UNCHANGED estimatorVars
    /\ UNCHANGED <<appVars, jsonVars>>

\* util::time::SetCurrentTime: a later time is taken over together with the reading of the
\* steady clock, an earlier or equal one is refused with a warning
SetCurrentTime(insTime) ==
    /\ IF insTime > currentTime
       THEN /\ currentTimeComputer' = steadyClock
            /\ currentTime' = insTime
       ELSE UNCHANGED <<currentTime, currentTimeComputer>>
    /\ UNCHANGED <<timeMode, steadyClock>>
    /\ UNCHANGED estimatorVars
    /\ UNCHANGED <<appVars, jsonVars>>

\* util::time::ClearCurrentTime
ClearCurrentTime ==
    /\ currentTime' = 0
    /\ UNCHANGED <<timeMode, currentTimeComputer, steadyClock>>
    /\ UNCHANGED estimatorVars
    /\ UNCHANGED <<appVars, jsonVars>>

\* The steady clock of the computer advances
SteadyClockAdvances ==
    /\ steadyClock < MaxTime
    /\ steadyClock' = steadyClock + 1
    /\ UNCHANGED <<timeMode, currentTime, currentTimeComputer>>
    /\ UNCHANGED estimatorVars
    /\ UNCHANGED <<appVars, jsonVars>>

NextFrame ==
    \/ \E obsDiff \in ObservationDifference : CalcObservationEstimates(obsDiff)
    \/ \E model \in IonosphereModels : SelectIonosphereModel(model)
    \/ \E model \in TroposphereModels : SelectTroposphereModel(model)
    \/ \E mode \in TimeModes : SetMode(mode)
    \/ \E insTime \in 0..MaxTime : SetCurrentTime(insTime)
    \/ ClearCurrentTime
    \/ SteadyClockAdvances

\* The estimator next to the process-wide time source
SpecFrame == InitFrame /\ [][NextFrame]_vars

\* The estimator on observation sets that may break the input contract
SpecContract == InitContract /\ [][Next]_vars

\* The estimator on the epochs of the worked scenario
SpecScenario == InitScenario /\ [][Next]_vars

\* The estimator on observation sets whose signals carry some of the observables
SpecObservables == InitObservables /\ [][Next]_vars

(***************************************************************************)
(* The configuration map (src/internal/ConfigManager.hpp).                 *)
(***************************************************************************)
\* ConfigManager::HasKey: vm.count(key)
HasKey(key) == key \in DOMAIN vm

\* ConfigManager::Get<T>(key), the overload without a default: vm[key].as<T>()
GetAs(key) == vm[key]

\* Get that stores the default under a key it does not find
Get_DefaultStored(key, defaultValue) ==
    [value |-> IF key \in DOMAIN vm THEN vm[key] ELSE defaultValue,
     vm    |-> [k \in DOMAIN vm \cup {key} |-> IF k \in DOMAIN vm THEN vm[k] ELSE defaultValue]]

\* ConfigManager::Get<T>(key, defaultValue): the value the call returns and the map it leaves
Get(key, defaultValue) ==
    [value |-> IF key \in DOMAIN vm THEN vm[key] ELSE defaultValue,
     vm    |-> vm]

\* Some part of the program asks for the string option key with a default
GetOption(key, defaultValue) ==
    /\ \E result \in {Get(key, defaultValue)} :
        /\ got' = result.value
        /\ vm' = result.vm
    /\ UNCHANGED <<pc, interruptThread, countDown, executor, nodes, callbacksEnabled, calls,
                   exitCode>>
    /\ UNCHANGED <<estimatorVars, timeVars, jsonVars>>

(***************************************************************************)
(* processCommandLineArguments (src/internal/AppLogic.cpp).                *)
(***************************************************************************)
\* Outcomes of flow::LoadFlow
LoadOutcomes == {"true", "false", "throws"}

\* The entry of a call of LoadFlow in `calls`, with its outcome
LoadFlowCall(outcome) ==
    IF outcome = "true" THEN "LoadFlow: true"
    ELSE IF outcome = "false" THEN "LoadFlow: false"
    ELSE "LoadFlow: throws"

\* Entry of processCommandLineArguments that reports a missing flow file as a failure
ProcessCommandLineArguments_MissingFlowFails ==
    /\ pc = "processCommandLineArguments"
    /\ \E insTime \in 1..MaxTime :
        IF insTime > currentTime
        THEN /\ currentTimeComputer' = steadyClock
             /\ currentTime' = insTime
        ELSE UNCHANGED <<currentTime, currentTimeComputer>>
    /\ UNCHANGED <<timeMode, steadyClock>>
    /\ IF GetAs("nogui")
       THEN IF HasKey("load")
            THEN /\ pc' = "LoadFlow"
                 /\ UNCHANGED <<calls, exitCode>>
            ELSE /\ calls' = Append(calls, "LOG_CRITICAL")
                 /\ pc' = "returned"
                 /\ exitCode' = "EXIT_FAILURE"
       ELSE /\ pc' = "app.Create"
            /\ UNCHANGED <<calls, exitCode>>
    /\ UNCHANGED <<vm, got, interruptThread, countDown, executor, nodes, callbacksEnabled>>
    /\ UNCHANGED <<estimatorVars, jsonVars>>

\* processCommandLineArguments up to the choice between No-GUI and GUI mode: the current time
\* is set to the time of the computer; in No-GUI mode without the option 'load' a critical
\* message is logged and the function returns EXIT_SUCCESS
ProcessCommandLineArguments ==
    /\ pc = "processCommandLineArguments"
    /\ \E insTime \in 1..MaxTime :
        IF insTime > currentTime
        THEN /\ currentTimeComputer' = steadyClock
             /\ currentTime' = insTime
        ELSE UNCHANGED <<currentTime, currentTimeComputer>>
    /\ UNCHANGED <<timeMode, steadyClock>>
    /\ IF GetAs("nogui")
       THEN IF HasKey("load")
            THEN /\ pc' = "LoadFlow"
                 /\ UNCHANGED <<calls, exitCode>>
            ELSE /\ calls' = Append(calls, "LOG_CRITICAL")
                 /\ pc' = "returned"
                 /\ exitCode' = "EXIT_SUCCESS"
       ELSE /\ pc' = "app.Create"
            /\ UNCHANGED <<calls, exitCode>>
    /\ UNCHANGED <<vm, got, interruptThread, countDown, executor, nodes, callbacksEnabled>>
    /\ UNCHANGED <<estimatorVars, jsonVars>>

\* No-GUI load that starts the executor whatever LoadFlow returned
LoadFlowNoGui_StartedRegardless(outcome) ==
    /\ pc = "LoadFlow"
    /\ \E result \in {Get("load", "")} :
        /\ got' = result.value
        /\ vm' = result.vm
        /\ nodes' = result.value
    /\ executor' = "running"
    /\ calls' = calls \o <<LoadFlowCall(outcome), "FlowExecutor::start">>
    /\ pc' = "FlowExecutor::waitForFinish"
    /\ UNCHANGED <<interruptThread, exitCode, countDown, callbacksEnabled>>
    /\ UNCHANGED <<estimatorVars, timeVars, jsonVars>>

\* No-GUI mode with a flow file: LoadFlow is called with the value of 'load'.  When it returns
\* true the executor is started and either the interrupt thread is created and joined or the
\* function waits for the executor to finish; when it returns false the function returns
\* EXIT_FAILURE; when it throws, all nodes are deleted and the function returns EXIT_FAILURE
LoadFlowNoGui(outcome) ==
    /\ pc = "LoadFlow"
    /\ \E result \in {Get("load", "")} :
        /\ got' = result.value
        /\ vm' = result.vm
        /\ IF outcome = "true"
           THEN /\ nodes' = result.value
                /\ executor' = "running"
                /\ calls' = calls \o <<LoadFlowCall(outcome), "FlowExecutor::start">>
                /\ IF GetAs("nogui") /\ (GetAs("sigterm") \/ GetAs("duration") # 0)
                   THEN /\ interruptThread' = "started"
                        /\ pc' = "interruptThread.join"
                   ELSE /\ interruptThread' = interruptThread
                        /\ pc' = "FlowExecutor::waitForFinish"
                /\ exitCode' = exitCode
           ELSE IF outcome = "false"
           THEN /\ nodes' \in {"", result.value}
                /\ calls' = Append(calls, LoadFlowCall(outcome))
                /\ pc' = "returned"
                /\ exitCode' = "EXIT_FAILURE"
                /\ UNCHANGED <<executor, interruptThread>>
           ELSE /\ nodes' = ""
                /\ calls' = calls \o <<LoadFlowCall(outcome), "DeleteAllNodes", "LOG_ERROR">>
                /\ pc' = "returned"
                /\ exitCode' = "EXIT_FAILURE"
                /\ UNCHANGED <<executor, interruptThread>>
    /\ UNCHANGED <<countDown, callbacksEnabled>>
    /\ UNCHANGED <<estimatorVars, timeVars, jsonVars>>

\* Interrupt thread that looks at 'duration' before 'sigterm'
InterruptThreadRuns_DurationFirst ==
    /\ interruptThread = "started"
    /\ IF GetAs("nogui") /\ GetAs("duration") # 0
       THEN /\ interruptThread' = "Sleep::countDownSeconds"
            /\ countDown' = GetAs("duration")
            /\ calls' = Append(calls, "Sleep::countDownSeconds")
       ELSE IF GetAs("nogui") /\ GetAs("sigterm")
       THEN /\ interruptThread' = "Sleep::waitForSignal"
            /\ calls' = Append(calls, "Sleep::waitForSignal")
            /\ UNCHANGED countDown
       ELSE /\ interruptThread' = "finished"
            /\ UNCHANGED <<countDown, calls>>
    /\ UNCHANGED <<vm, got, pc, executor, nodes, callbacksEnabled, exitCode>>
    /\ UNCHANGED <<estimatorVars, timeVars, jsonVars>>

\* The interrupt thread begins: with 'sigterm' it waits for a signal, otherwise with a
\* non-zero 'duration' it counts the seconds down
InterruptThreadRuns ==
    /\ interruptThread = "started"
    /\ IF GetAs("nogui") /\ GetAs("sigterm")
       THEN /\ interruptThread' = "Sleep::waitForSignal"
            /\ calls' = Append(calls, "Sleep::waitForSignal")
            /\ UNCHANGED countDown
       ELSE IF GetAs("nogui") /\ GetAs("duration") # 0
       THEN /\ interruptThread' = "Sleep::countDownSeconds"
            /\ countDown' = GetAs("duration")
            /\ calls' = Append(calls, "Sleep::countDownSeconds")
       ELSE /\ interruptThread' = "finished"
            /\ UNCHANGED <<countDown, calls>>
    /\ UNCHANGED <<vm, got, pc, executor, nodes, callbacksEnabled, exitCode>>
    /\ UNCHANGED <<estimatorVars, timeVars, jsonVars>>

\* FlowExecutor::stop: the executor no longer runs
FlowExecutorStop ==
    /\ executor' = "stopped"
    /\ calls' = Append(calls, "FlowExecutor::stop")

\* The signal arrives: Sleep::waitForSignal returns and the thread stops the executor
WaitForSignalReturns ==
    /\ interruptThread = "Sleep::waitForSignal"
    /\ FlowExecutorStop
    /\ interruptThread' = "finished"
    /\ UNCHANGED <<vm, got, pc, countDown, nodes, callbacksEnabled, exitCode>>
    /\ UNCHANGED <<estimatorVars, timeVars, jsonVars>>

\* A second of Sleep::countDownSeconds passes; after the last one the thread stops the executor
CountDownSeconds ==
    /\ interruptThread = "Sleep::countDownSeconds"
    /\ IF countDown > 1
       THEN /\ countDown' = countDown - 1
            /\ UNCHANGED <<executor, calls, interruptThread>>
       ELSE /\ countDown' = 0
            /\ FlowExecutorStop
            /\ interruptThread' = "finished"
    /\ UNCHANGED <<vm, got, pc, nodes, callbacksEnabled, exitCode>>
    /\ UNCHANGED <<estimatorVars, timeVars, jsonVars>>

\* Join that does not wait for the interrupt thread
JoinInterruptThread_Detached ==
    /\ pc = "interruptThread.join"
    /\ pc' = "DisableAllCallbacks"
    /\ UNCHANGED <<vm, got, interruptThread, countDown, executor, nodes, callbacksEnabled, calls,
                   exitCode>>
    /\ UNCHANGED <<estimatorVars, timeVars, jsonVars>>

\* interruptThread.join() returns once the thread has finished
JoinInterruptThread ==
    /\ pc = "interruptThread.join"
    /\ interruptThread = "finished"
    /\ pc' = "DisableAllCallbacks"
    /\ UNCHANGED <<vm, got, interruptThread, countDown, executor, nodes, callbacksEnabled, calls,
                   exitCode>>
    /\ UNCHANGED <<estimatorVars, timeVars, jsonVars>>

\* The flow runs to its end by itself
FlowFinishes ==
    /\ executor = "running"
    /\ executor' = "finished"
    /\ UNCHANGED <<vm, got, pc, interruptThread, countDown, nodes, callbacksEnabled, calls,
                   exitCode>>
    /\ UNCHANGED <<estimatorVars, timeVars, jsonVars>>

\* FlowExecutor::waitForFinish returns once the executor no longer runs
WaitForFinishReturns ==
    /\ pc = "FlowExecutor::waitForFinish"
    /\ executor # "running"
    /\ calls' = Append(calls, "FlowExecutor::waitForFinish")
    /\ pc' = "DisableAllCallbacks"
    /\ UNCHANGED <<vm, got, interruptThread, countDown, executor, nodes, callbacksEnabled,
                   exitCode>>
    /\ UNCHANGED <<estimatorVars, timeVars, jsonVars>>

\* nm::DisableAllCallbacks after the run
DisableAllCallbacks ==
    /\ pc = "DisableAllCallbacks"
    /\ callbacksEnabled' = FALSE
    /\ calls' = Append(calls, "DisableAllCallbacks")
    /\ pc' = "DeleteAllNodes"
    /\ UNCHANGED <<vm, got, interruptThread, countDown, executor, nodes, exitCode>>
    /\ UNCHANGED <<estimatorVars, timeVars, jsonVars>>

\* nm::DeleteAllNodes after the run, and the return of EXIT_SUCCESS
DeleteAllNodes ==
    /\ pc = "DeleteAllNodes"
    /\ nodes' = ""
    /\ calls' = Append(calls, "DeleteAllNodes")
    /\ pc' = "returned"
    /\ exitCode' = "EXIT_SUCCESS"
    /\ UNCHANGED <<vm, got, interruptThread, countDown, executor, callbacksEnabled>>
    /\ UNCHANGED <<estimatorVars, timeVars, jsonVars>>

\* GUI mode: app.Create(); without a window a critical message is logged and the function
\* returns EXIT_SUCCESS
AppCreate(created) ==
    /\ pc = "app.Create"
    /\ IF created
       THEN /\ pc' = IF HasKey("load") THEN "app.LoadFlow" ELSE "app.Run"
            /\ calls' = Append(calls, "app.Create: true")
            /\ UNCHANGED exitCode
       ELSE /\ calls' = calls \o <<"app.Create: false", "LOG_CRITICAL">>
            /\ pc' = "returned"
            /\ exitCode' = "EXIT_SUCCESS"
    /\ UNCHANGED <<vm, got, interruptThread, countDown, executor, nodes, callbacksEnabled>>
    /\ UNCHANGED <<estimatorVars, timeVars, jsonVars>>

\* GUI mode with a flow file: a flow that cannot be loaded is discarded; an exception of
\* LoadFlow is not caught and leaves the function
LoadFlowGui(outcome) ==
    /\ pc = "app.LoadFlow"
    /\ \E result \in {Get("load", "")} :
        /\ got' = result.value
        /\ vm' = result.vm
        /\ IF outcome = "true"
           THEN /\ nodes' = result.value
                /\ calls' = Append(calls, LoadFlowCall(outcome))
                /\ pc' = "app.Run"
           ELSE IF outcome = "false"
           THEN /\ nodes' = ""
                /\ calls' = calls \o <<LoadFlowCall(outcome), "DeleteAllNodes", "DiscardChanges">>
                /\ pc' = "app.Run"
           ELSE /\ nodes' \in {"", result.value}
                /\ calls' = Append(calls, LoadFlowCall(outcome))
                /\ pc' = "thrown"
    /\ UNCHANGED <<interruptThread, countDown, executor, callbacksEnabled, exitCode>>
    /\ UNCHANGED <<estimatorVars, timeVars, jsonVars>>

\* GUI mode: app.Run() returns and its value is the value of the function
AppRun(code) ==
    /\ pc = "app.Run"
    /\ calls' = Append(calls, "app.Run")
    /\ pc' = "returned"
    /\ exitCode' = code
    /\ UNCHANGED <<vm, got, interruptThread, countDown, executor, nodes, callbacksEnabled>>
    /\ UNCHANGED <<estimatorVars, timeVars, jsonVars>>

NextApp ==
    \/ \E defaultValue \in {"", "flow/Other.flow"} : GetOption("load", defaultValue)
    \/ ProcessCommandLineArguments
    \/ \E outcome \in LoadOutcomes : LoadFlowNoGui(outcome)
    \/ InterruptThreadRuns
    \/ WaitForSignalReturns
    \/ CountDownSeconds
    \/ JoinInterruptThread
    \/ FlowFinishes
    \/ WaitForFinishReturns
    \/ DisableAllCallbacks
    \/ DeleteAllNodes
    \/ \E created \in BOOLEAN : AppCreate(created)
    \/ \E outcome \in LoadOutcomes : LoadFlowGui(outcome)
    \/ \E code \in {"EXIT_SUCCESS", "EXIT_FAILURE"} : AppRun(code)

\* The program from its command line to the return of processCommandLineArguments
SpecApp == InitApp /\ [][NextApp]_vars

(***************************************************************************)
(* ImuPos and its json form (src/NodeData/IMU/ImuPos.cpp).                 *)
(***************************************************************************)
\* Eigen::Quaterniond::coeffs(): the coefficients in the order x, y, z, w
coeffs(q) == <<q.x, q.y, q.z, q.w>>

\* get_to(q.coeffs()): the quaternion that has the coefficients c
FromCoeffs(c) == [w |-> c[4], x |-> c[1], y |-> c[2], z |-> c[3]]

\* to_json(j, pos): the json object that is assigned to j
to_json(pos) ==
    [posAccel_b   |-> pos.positionAccel_b,
     posGyro_b    |-> pos.positionGyro_b,
     posMag_b     |-> pos.positionMag_b,
     quatAccel_bp |-> coeffs(pos.quaternionAccel_bp),
     quatGyro_bp  |-> coeffs(pos.quaternionGyro_bp),
     quatMag_bp   |-> coeffs(pos.quaternionMag_bp)]

\* from_json(j, pos): pos after the call; a field whose key j does not contain is left alone
from_json(jj, pos) ==
    [positionAccel_b    |-> IF "posAccel_b" \in DOMAIN jj
                            THEN jj["posAccel_b"] ELSE pos.positionAccel_b,
     positionGyro_b     |-> IF "positionGyro_b" \in DOMAIN jj
                            THEN jj["positionGyro_b"] ELSE pos.positionGyro_b,
     positionMag_b      |-> IF "posMag_b" \in DOMAIN jj
                            THEN jj["posMag_b"] ELSE pos.positionMag_b,
     quaternionAccel_bp |-> IF "quatAccel_bp" \in DOMAIN jj
                            THEN FromCoeffs(jj["quatAccel_bp"]) ELSE pos.quaternionAccel_bp,
     quaternionGyro_bp  |-> IF "quatGyro_bp" \in DOMAIN jj
                            THEN FromCoeffs(jj["quatGyro_bp"]) ELSE pos.quaternionGyro_bp,
     quaternionMag_bp   |-> IF "quatMag_bp" \in DOMAIN jj
                            THEN FromCoeffs(jj["quatMag_bp"]) ELSE pos.quaternionMag_bp]

\* The keys to_json writes
WrittenKeys == DOMAIN to_json(DefaultImuPos)

\* j = imuPos
ToJson ==
    /\ json' = to_json(imuPos)
    /\ UNCHANGED <<imuPos, restored>>
    /\ UNCHANGED <<estimatorVars, timeVars, appVars>>

\* j.get_to(restored)
FromJson ==
    /\ restored' = from_json(json, restored)
    /\ UNCHANGED <<imuPos, json>>
    /\ UNCHANGED <<estimatorVars, timeVars, appVars>>

\* A key is taken out of the json object as to_json wrote it
EraseKey(key) ==
    /\ json = to_json(imuPos)
    /\ key \in DOMAIN json
    /\ json' = [k \in DOMAIN json \ {key} |-> json[k]]
    /\ UNCHANGED <<imuPos, restored>>
    /\ UNCHANGED <<estimatorVars, timeVars, appVars>>

NextImuPos ==
    \/ ToJson
    \/ FromJson
    \/ \E key \in WrittenKeys : EraseKey(key)

\* ImuPos objects written to json and read back
SpecImuPos == InitImuPos /\ [][NextImuPos]_vars

(***************************************************************************)
(* Vocabulary of the properties.                                           *)
(***************************************************************************)
ReceiverSlots == 0..(ReceiverType_COUNT - 1)

\* calcObservationEstimates has annotated the observation set
Annotated == lastCall.obsDiff \in ObservationDifference

\* The observation set as the upstream collector built it: a reset copy of the same inputs
ResetCopy(obsSet) ==
    [obsSet EXCEPT !.signals =
        [satSigId \in DOMAIN obsSet.signals |->
            [obsSet.signals[satSigId] EXCEPT !.recvObs =
                [r \in DOMAIN obsSet.signals[satSigId].recvObs |->
                    [obsSet.signals[satSigId].recvObs[r] EXCEPT
                        !.terms = [rho_r_s |-> 0,
                                   tropoZenithDelay |-> [ZHD |-> 0, ZWD |-> 0,
                                                         zhdMappingFactor |-> 0, zwdMappingFactor |-> 0],
                                   dpsr_T_r_s |-> 0, dpsr_I_r_s |-> 0, dpsr_ie_r_s |-> 0],
                        !.obs = [obsType \in DOMAIN obsSet.signals[satSigId].recvObs[r].obs |->
                                    [obsSet.signals[satSigId].recvObs[r].obs[obsType] EXCEPT
                                        !.estimate = 0, !.measVar = Variance(0, 0)]]]]]]]

\* The call on a reset copy of obsSet with receivers recvs, under the models of the last call
Rerun(obsSet, recvs, obsDiff) ==
    calcObservationEstimates(ResetCopy(obsSet), recvs, lastCall.ionosphereModel,
                             lastCall.troposphereModels, obsDiff)

\* The observation set annotated in mode obsDiff: the set itself when the last call used
\* that mode, else the result of the call on a reset copy of the same inputs
AnnotatedIn(obsDiff) ==
    IF lastCall.obsDiff = obsDiff THEN observations ELSE Rerun(observations, receivers, obsDiff)

ObsData(obsSet, satSigId, r, obsType) == obsSet.signals[satSigId].recvObs[r].obs[obsType]

RecvObsOf(satSigId, r) == observations.signals[satSigId].recvObs[r]

\* The observation set with another satellite clock for every satellite
WithSatClock(bias, drift) ==
    [observations EXCEPT !.signals =
        [satSigId \in DOMAIN observations.signals |->
            [observations.signals[satSigId] EXCEPT !.recvObs =
                [r \in DOMAIN observations.signals[satSigId].recvObs |->
                    [observations.signals[satSigId].recvObs[r] EXCEPT
                        !.satClock = [bias |-> bias, drift |-> drift]]]]]]

\* The receivers with another receiver clock bias and drift
WithRecvClock(bias, drift) ==
    [r \in DOMAIN receivers |->
        [receivers[r] EXCEPT !.recvClk.bias.value = bias, !.recvClk.drift.value = drift]]

\* The receivers with another time-difference bias and drift for system satSys
WithSysTimeDiff(satSys, bias, drift) ==
    [r \in DOMAIN receivers |->
        [receivers[r] EXCEPT !.recvClk.sysTimeDiffBias[satSys].value = bias,
                             !.recvClk.sysTimeDiffDrift[satSys].value = drift]]

\* The receivers with other inter-frequency bias entries
WithInterFrequencyBias(ifb) ==
    [r \in DOMAIN receivers |-> [receivers[r] EXCEPT !.interFrequencyBias = ifb]]

\* The clock quantity an observable responds to: the bias for code and carrier, the drift for Doppler
ClockPart(obsType, bias, drift) == IF obsType = "Doppler" THEN drift ELSE bias

(***************************************************************************)
(* Difference-mode compliance of the estimates.                            *)
(***************************************************************************)
\* C1 as stated: the pseudorange and carrier estimate in NoDifference minus the estimate in
\* SingleDifference equals (speed of light) x (satellite clock bias).
C1_NoDifferenceMinusSingleDifference_AsStated ==
    lastCall.obsDiff \in {"NoDifference", "SingleDifference"} =>
        \A satSigId \in SatSigIds, r \in ReceiverSlots, obsType \in {"Pseudorange", "Carrier"} :
            ObsData(AnnotatedIn("NoDifference"), satSigId, r, obsType).estimate
            - ObsData(AnnotatedIn("SingleDifference"), satSigId, r, obsType).estimate
            = C * RecvObsOf(satSigId, r).satClock.bias

\* C1 amended: the satellite clock bias is subtracted in NoDifference, so the pseudorange and
\* carrier estimate in NoDifference minus the estimate in SingleDifference equals
\* minus (speed of light) x (satellite clock bias).
C1_NoDifferenceMinusSingleDifference ==
    lastCall.obsDiff \in {"NoDifference", "SingleDifference"} =>
        \A satSigId \in SatSigIds, r \in ReceiverSlots, obsType \in {"Pseudorange", "Carrier"} :
            ObsData(AnnotatedIn("NoDifference"), satSigId, r, obsType).estimate
            - ObsData(AnnotatedIn("SingleDifference"), satSigId, r, obsType).estimate
            = -(C * RecvObsOf(satSigId, r).satClock.bias)

\* A call in NoDifference on a signal with non-zero receiver, satellite and per-system clock bias
C1_Witness ==
    /\ lastCall.obsDiff = "NoDifference"
    /\ \E satSigId \in SatSigIds, r \in ReceiverSlots :
        /\ receivers[r].recvClk.bias.value # 0
        /\ RecvObsOf(satSigId, r).satClock.bias # 0
        /\ receivers[r].recvClk.sysTimeDiffBias[getSatSys(freq(satSigId))].value # 0
        /\ ObsData(observations, satSigId, r, "Pseudorange").estimate
           # ObsData(AnnotatedIn("SingleDifference"), satSigId, r, "Pseudorange").estimate

\* C2: the pseudorange and carrier estimate in SingleDifference minus the estimate in
\* DoubleDifference equals (speed of light) x (receiver clock bias + per-system bias).
C2_SingleDifferenceMinusDoubleDifference ==
    lastCall.obsDiff \in {"SingleDifference", "DoubleDifference"} =>
        \A satSigId \in SatSigIds, r \in ReceiverSlots, obsType \in {"Pseudorange", "Carrier"} :
            ObsData(AnnotatedIn("SingleDifference"), satSigId, r, obsType).estimate
            - ObsData(AnnotatedIn("DoubleDifference"), satSigId, r, obsType).estimate
            = C * (receivers[r].recvClk.bias.value
                   + receivers[r].recvClk.sysTimeDiffBias[getSatSys(freq(satSigId))].value)

\* C3: the per-system time-difference term of the signal's system (bias for pseudorange and
\* carrier, drift for Doppler) is part of the estimate in NoDifference and SingleDifference and
\* not in DoubleDifference: with another value of the term the estimate moves by
\* (speed of light) x (the change) in the first two modes and stays in DoubleDifference.
C3_PerSystemTermByMode ==
    Annotated =>
        \A satSigId \in SatSigIds, r \in ReceiverSlots, obsType \in ObservationTypes,
           bias \in 0..MaxClock, drift \in 0..MaxClock :
            LET satSys == getSatSys(freq(satSigId))
                other  == Rerun(observations, WithSysTimeDiff(satSys, bias, drift), lastCall.obsDiff)
                change == ClockPart(obsType,
                                    bias - receivers[r].recvClk.sysTimeDiffBias[satSys].value,
                                    drift - receivers[r].recvClk.sysTimeDiffDrift[satSys].value)
            IN  ObsData(other, satSigId, r, obsType).estimate
                - ObsData(observations, satSigId, r, obsType).estimate
                = C * change * AsNumber(lastCall.obsDiff # "DoubleDifference")

\* C4: the receiver clock term (bias for pseudorange and carrier, drift for Doppler, times the
\* speed of light) is added in NoDifference and SingleDifference and contributes nothing in
\* DoubleDifference: with another receiver clock the estimate moves by
\* (speed of light) x (the change) in the first two modes and stays in DoubleDifference.
C4_ReceiverClockTermByMode ==
    Annotated =>
        \A satSigId \in SatSigIds, r \in ReceiverSlots, obsType \in ObservationTypes,
           bias \in 0..MaxClock, drift \in 0..MaxClock :
            LET other  == Rerun(observations, WithRecvClock(bias, drift), lastCall.obsDiff)
                change == ClockPart(obsType,
                                    bias - receivers[r].recvClk.bias.value,
                                    drift - receivers[r].recvClk.drift.value)
            IN  ObsData(other, satSigId, r, obsType).estimate
                - ObsData(observations, satSigId, r, obsType).estimate
                = C * change * AsNumber(lastCall.obsDiff # "DoubleDifference")

\* A call in DoubleDifference with a non-zero receiver clock bias and drift
C4_Witness ==
    /\ lastCall.obsDiff = "DoubleDifference"
    /\ \E r \in ReceiverSlots :
        /\ receivers[r].recvClk.bias.value # 0
        /\ receivers[r].recvClk.drift.value # 0
        /\ \A satSigId \in SatSigIds, obsType \in ObservationTypes :
            ObsData(observations, satSigId, r, obsType).estimate
            = ObsData(Rerun(observations, WithRecvClock(0, 0), "DoubleDifference"),
                      satSigId, r, obsType).estimate

\* C5: the satellite clock term (bias for pseudorange and carrier, drift for Doppler, times the
\* speed of light) is subtracted in NoDifference only: with another satellite clock the estimate
\* moves by minus (speed of light) x (the change) in NoDifference and does not move at all in
\* SingleDifference and DoubleDifference.
C5_SatelliteClockTermByMode ==
    Annotated =>
        \A satSigId \in SatSigIds, r \in ReceiverSlots, obsType \in ObservationTypes,
           bias \in 0..MaxClock, drift \in 0..MaxClock :
            LET other  == Rerun(WithSatClock(bias, drift), receivers, lastCall.obsDiff)
                change == ClockPart(obsType,
                                    bias - RecvObsOf(satSigId, r).satClock.bias,
                                    drift - RecvObsOf(satSigId, r).satClock.drift)
            IN  ObsData(other, satSigId, r, obsType).estimate
                - ObsData(observations, satSigId, r, obsType).estimate
                = -(C * change * AsNumber(lastCall.obsDiff = "NoDifference"))

\* A call in SingleDifference on a signal whose satellite clock bias and drift are non-zero
C5_Witness ==
    /\ lastCall.obsDiff = "SingleDifference"
    /\ \E satSigId \in SatSigIds, r \in ReceiverSlots :
        /\ RecvObsOf(satSigId, r).satClock.bias # 0
        /\ RecvObsOf(satSigId, r).satClock.drift # 0
        /\ \A obsType \in ObservationTypes :
            ObsData(observations, satSigId, r, obsType).estimate
            = ObsData(Rerun(WithSatClock(0, 0), receivers, "SingleDifference"),
                      satSigId, r, obsType).estimate

\* C6: the inter-frequency bias of the signal's frequency (times the speed of light) is added to
\* the pseudorange estimate in all three difference modes whenever the receiver holds an entry
\* for that frequency; the carrier and Doppler estimates never depend on it: with other entries
\* the pseudorange moves by (speed of light) x (the change of the bias) and the others stay.
C6_InterFrequencyBiasCodeOnly ==
    Annotated =>
        \A held \in SUBSET Frequencies :
            \A value \in [held -> 0..MaxClock] :
                \A satSigId \in SatSigIds, r \in ReceiverSlots :
                    LET f      == freq(satSigId)
                        other  == Rerun(observations,
                                        WithInterFrequencyBias([g \in held |-> Uncertain(value[g], 1)]),
                                        lastCall.obsDiff)
                        before == IF f \in DOMAIN receivers[r].interFrequencyBias
                                  THEN receivers[r].interFrequencyBias[f].value ELSE 0
                        after  == IF f \in held THEN value[f] ELSE 0
                    IN  /\ ObsData(other, satSigId, r, "Pseudorange").estimate
                           - ObsData(observations, satSigId, r, "Pseudorange").estimate
                           = C * (after - before)
                        /\ ObsData(other, satSigId, r, "Carrier").estimate
                           = ObsData(observations, satSigId, r, "Carrier").estimate
                        /\ ObsData(other, satSigId, r, "Doppler").estimate
                           = ObsData(observations, satSigId, r, "Doppler").estimate

\* A call in DoubleDifference for a receiver that holds a non-zero inter-frequency bias of a
\* signal's frequency, whose pseudorange estimate contains it
C6_Witness ==
    /\ lastCall.obsDiff = "DoubleDifference"
    /\ \E satSigId \in SatSigIds, r \in ReceiverSlots :
        /\ freq(satSigId) \in DOMAIN receivers[r].interFrequencyBias
        /\ receivers[r].interFrequencyBias[freq(satSigId)].value # 0
        /\ ObsData(observations, satSigId, r, "Pseudorange").estimate
           - ObsData(Rerun(observations, WithInterFrequencyBias(<<>>), "DoubleDifference"),
                     satSigId, r, "Pseudorange").estimate
           = C * receivers[r].interFrequencyBias[freq(satSigId)].value

C8_DopplerExcludesAtmosphere ==
    Annotated =>
        \A ionosphereModel \in IonosphereModels, troposphereModels \in TroposphereModels :
            \A satSigId \in SatSigIds, r \in ReceiverSlots :
                ObsData(calcObservationEstimates(ResetCopy(observations), receivers, ionosphereModel,
                                                 troposphereModels, lastCall.obsDiff),
                        satSigId, r, "Doppler").estimate
                = ObsData(observations, satSigId, r, "Doppler").estimate

\* A call with non-zero tropospheric and ionospheric delay, whose pseudorange estimate differs
\* from the one without atmosphere
C8_Witness ==
    /\ Annotated
    /\ \E satSigId \in SatSigIds, r \in ReceiverSlots :
        /\ RecvObsOf(satSigId, r).terms.dpsr_T_r_s # 0
        /\ RecvObsOf(satSigId, r).terms.dpsr_I_r_s # 0
        /\ ObsData(calcObservationEstimates(ResetCopy(observations), receivers, "None", "None",
                                            lastCall.obsDiff),
                   satSigId, r, "Pseudorange").estimate
           # ObsData(observations, satSigId, r, "Pseudorange").estimate

(***************************************************************************)
(* Difference-mode compliance of the variances.                            *)
(***************************************************************************)
\* CN0.value_or(1.0) of a receiver observation
Cn0Of(recvObs) == IF recvObs.CN0.has_value THEN recvObs.CN0.value ELSE 1

\* The measurement error model's variance for an observable of a pair of the observation set
BaselineOf(satSigId, r, obsType) ==
    LET recvObs == RecvObsOf(satSigId, r)
    IN  CASE obsType = "Pseudorange" ->
                psrMeasErrorVar(getSatSys(freq(satSigId)), recvObs.satElevation, Cn0Of(recvObs))
          [] obsType = "Carrier" ->
                carrierMeasErrorVar(getSatSys(freq(satSigId)), recvObs.satElevation, Cn0Of(recvObs))
          [] obsType = "Doppler" ->
                psrRateMeasErrorVar(freq(satSigId), observations.signals[satSigId].freqNum,
                                    recvObs.satElevation, Cn0Of(recvObs))

\* C9: in DoubleDifference the measVar of every observable equals exactly the baseline variance
\* of the measurement error model.
C9_DoubleDifferenceVarianceIsBaseline ==
    lastCall.obsDiff = "DoubleDifference" =>
        \A satSigId \in SatSigIds, r \in ReceiverSlots, obsType \in ObservationTypes :
            ObsData(observations, satSigId, r, obsType).measVar = BaselineOf(satSigId, r, obsType)

\* A call in DoubleDifference with non-zero clock uncertainties, satellite position variance and
\* atmospheric delays, whose variances are smaller than those of the same call in NoDifference
C9_Witness ==
    /\ lastCall.obsDiff = "DoubleDifference"
    /\ \E satSigId \in SatSigIds, r \in ReceiverSlots :
        /\ receivers[r].recvClk.bias.stdDev # 0
        /\ receivers[r].recvClk.drift.stdDev # 0
        /\ observations.signals[satSigId].satPosVar # 0
        /\ RecvObsOf(satSigId, r).terms.dpsr_I_r_s # 0
        /\ \A obsType \in ObservationTypes :
            ObsData(observations, satSigId, r, obsType).measVar
            # ObsData(AnnotatedIn("NoDifference"), satSigId, r, obsType).measVar

\* The satellite-side variance contributions of C10 for an observable of a pair
SatelliteSideContributions(satSigId, r, obsType) ==
    LET recvObs == RecvObsOf(satSigId, r)
        f == freq(satSigId)
        satPosIonoTropo ==
            VarPlus(VarPlus(Variance(observations.signals[satSigId].satPosVar, 0),
                            ionoErrorVar(recvObs.terms.dpsr_I_r_s, f, observations.signals[satSigId].freqNum)),
                    tropoErrorVar(recvObs.terms.dpsr_T_r_s, recvObs.satElevation))
        codeAndInterFreq ==
            VarPlus(codeBiasErrorVar,
                    IF f \in DOMAIN receivers[r].interFrequencyBias
                    THEN Variance(receivers[r].interFrequencyBias[f].stdDev
                                  * receivers[r].interFrequencyBias[f].stdDev, 0)
                    ELSE Variance(0, 0))
    IN  CASE obsType = "Pseudorange" -> VarPlus(satPosIonoTropo, codeAndInterFreq)
          [] obsType = "Carrier"     -> satPosIonoTropo
          [] obsType = "Doppler"     -> Variance(0, 0)

ReceiverClockVarianceOf(satSigId, r, obsType) ==
    LET recvClk == receivers[r].recvClk
        satSys  == getSatSys(freq(satSigId))
    IN  Variance(0, ClockPart(obsType,
                              recvClk.bias.stdDev * recvClk.bias.stdDev
                              + recvClk.sysTimeDiffBias[satSys].stdDev * recvClk.sysTimeDiffBias[satSys].stdDev,
                              recvClk.drift.stdDev * recvClk.drift.stdDev
                              + recvClk.sysTimeDiffDrift[satSys].stdDev * recvClk.sysTimeDiffDrift[satSys].stdDev))

\* C11: the receiver-clock variance c^2 x (receiver clock stdDev^2 + per-system time-difference
\* stdDev^2) is added to measVar in NoDifference and SingleDifference and not in
\* DoubleDifference; pseudorange and carrier take the bias standard deviations, Doppler the
\* drift standard deviations.
C11_ReceiverClockVarianceByMode ==
    Annotated =>
        \A satSigId \in SatSigIds, r \in ReceiverSlots, obsType \in ObservationTypes :
            /\ VarMinus(ObsData(AnnotatedIn("SingleDifference"), satSigId, r, obsType).measVar,
                        ObsData(AnnotatedIn("DoubleDifference"), satSigId, r, obsType).measVar)
               = ReceiverClockVarianceOf(satSigId, r, obsType)
            /\ VarMinus(ObsData(AnnotatedIn("NoDifference"), satSigId, r, obsType).measVar,
                        VarPlus(BaselineOf(satSigId, r, obsType),
                                SatelliteSideContributions(satSigId, r, obsType)))
               = ReceiverClockVarianceOf(satSigId, r, obsType)
            /\ ObsData(AnnotatedIn("DoubleDifference"), satSigId, r, obsType).measVar.c2 = 0

\* A call in SingleDifference where the bias and the drift standard deviations give different
\* receiver clock variances
C11_Witness ==
    /\ lastCall.obsDiff = "SingleDifference"
    /\ \E satSigId \in SatSigIds, r \in ReceiverSlots :
        /\ ReceiverClockVarianceOf(satSigId, r, "Pseudorange").c2 # 0
        /\ ReceiverClockVarianceOf(satSigId, r, "Doppler")
           # ReceiverClockVarianceOf(satSigId, r, "Pseudorange")
        /\ ObsData(observations, satSigId, r, "Doppler").measVar.c2
           = ReceiverClockVarianceOf(satSigId, r, "Doppler").c2

(***************************************************************************)
(* Composition of the variances.                                           *)
(***************************************************************************)
\* Variance v is at least variance w: neither of its two parts is smaller
VarAtLeast(v, w) == v.m2 >= w.m2 /\ v.c2 >= w.c2

\* C12: for every signal, receiver, observable and difference mode the final measVar is greater
\* than or equal to the baseline variance of the measurement error model: what the call adds to
\* the baseline is non-negative and the baseline is never reduced or replaced.
C12_VarianceAtLeastBaseline ==
    Annotated =>
        \A satSigId \in SatSigIds, r \in ReceiverSlots, obsType \in ObservationTypes,
           obsDiff \in ObservationDifference :
            LET measVar == ObsData(AnnotatedIn(obsDiff), satSigId, r, obsType).measVar
                added   == VarMinus(measVar, BaselineOf(satSigId, r, obsType))
            IN  /\ VarAtLeast(measVar, BaselineOf(satSigId, r, obsType))
                /\ VarAtLeast(added, Variance(0, 0))

\* A call in NoDifference whose satellite-side contributions to a pseudorange are smaller than
\* its baseline, and whose measVar exceeds the baseline in both parts
C12_Witness ==
    /\ lastCall.obsDiff = "NoDifference"
    /\ \E satSigId \in SatSigIds, r \in ReceiverSlots :
        /\ SatelliteSideContributions(satSigId, r, "Pseudorange").m2
           < BaselineOf(satSigId, r, "Pseudorange").m2
        /\ ObsData(observations, satSigId, r, "Pseudorange").measVar.m2
           > BaselineOf(satSigId, r, "Pseudorange").m2
        /\ ObsData(observations, satSigId, r, "Pseudorange").measVar.c2 > 0

(***************************************************************************)
(* Repeated calls.                                                         *)
(***************************************************************************)
\* C13: calling calcObservationEstimates again with the same receivers, corrections, model
\* configuration and difference mode yields the same estimate and measVar for every entry,
\* on a reset copy of the observation set as well as on the annotated set itself, whatever
\* calls were made on the set before.
C13_RepeatedCallIdempotent ==
    Annotated =>
        LET onResetCopy == Rerun(observations, receivers, lastCall.obsDiff)
            onAnnotated == calcObservationEstimates(observations, receivers, lastCall.ionosphereModel,
                                                    lastCall.troposphereModels, lastCall.obsDiff)
        IN  \A satSigId \in SatSigIds, r \in ReceiverSlots, obsType \in ObservationTypes :
                /\ ObsData(onResetCopy, satSigId, r, obsType).estimate
                   = ObsData(observations, satSigId, r, obsType).estimate
                /\ ObsData(onResetCopy, satSigId, r, obsType).measVar
                   = ObsData(observations, satSigId, r, obsType).measVar
                /\ ObsData(onAnnotated, satSigId, r, obsType).estimate
                   = ObsData(observations, satSigId, r, obsType).estimate
                /\ ObsData(onAnnotated, satSigId, r, obsType).measVar
                   = ObsData(observations, satSigId, r, obsType).measVar

\* An annotated set with non-zero variances, annotated under a model configuration that has
\* been changed since
C13_Witness ==
    /\ Annotated
    /\ lastCall.ionosphereModel # _ionosphereModel
    /\ lastCall.troposphereModels # _troposphereModels
    /\ \A satSigId \in SatSigIds, r \in ReceiverSlots, obsType \in ObservationTypes :
        /\ ObsData(observations, satSigId, r, obsType).measVar.m2 > 0
        /\ ObsData(observations, satSigId, r, obsType).estimate # 0

(***************************************************************************)
(* Input contract.                                                         *)
(***************************************************************************)
\* The (signal, receiver index) pairs of the observation set
Pairs ==
    UNION {{<<satSigId, r>> : r \in DOMAIN observations.signals[satSigId].recvObs} :
           satSigId \in DOMAIN observations.signals}

\* The pair refers to a receiver slot or a per-system time-difference entry that is missing
MissingSlotOrSystem(satSigId, r) ==
    \/ r \notin DOMAIN receivers
    \/ getSatSys(freq(satSigId)) \notin DOMAIN receivers[r].recvClk.sysTimeDiffBias
    \/ getSatSys(freq(satSigId)) \notin DOMAIN receivers[r].recvClk.sysTimeDiffDrift

\* The receiver of the pair holds no inter-frequency bias entry for the frequency of the signal
MissingInterFrequencyBias(satSigId, r) ==
    /\ r \in DOMAIN receivers
    /\ freq(satSigId) \notin DOMAIN receivers[r].interFrequencyBias

\* No observable entry of the pair holds an estimate or a measVar
NothingEstimated(satSigId, r) ==
    \A obsType \in DOMAIN RecvObsOf(satSigId, r).obs :
        /\ ObsData(observations, satSigId, r, obsType).estimate = 0
        /\ ObsData(observations, satSigId, r, obsType).measVar = Variance(0, 0)

\* The receivers with a zero inter-frequency bias entry for every frequency without entry
WithZeroInterFrequencyBias ==
    [r \in DOMAIN receivers |->
        [receivers[r] EXCEPT !.interFrequencyBias =
            [f \in Frequencies |-> IF f \in DOMAIN receivers[r].interFrequencyBias
                                   THEN receivers[r].interFrequencyBias[f]
                                   ELSE Uncertain(0, 0)]]]

\* C14 as stated: if the observation set references a receiver slot, a per-system
\* time-difference entry or an inter-frequency bias entry that the receiver states do not hold,
\* the call aborts instead of producing an estimate for that entry.
C14_MissingEntryAborts_AsStated ==
    (Annotated \/ aborted) =>
        \A pair \in Pairs :
            (MissingSlotOrSystem(pair[1], pair[2]) \/ MissingInterFrequencyBias(pair[1], pair[2]))
            => aborted /\ NothingEstimated(pair[1], pair[2])

\* C14 amended: the call aborts exactly when the observation set references a receiver slot or
\* a per-system time-difference entry that the receiver states do not hold, and no observable
\* of such a pair gets an estimate; a missing inter-frequency bias entry does not abort the
\* call: the estimates are those of a zero inter-frequency bias.
C14_MissingEntryAborts ==
    (Annotated \/ aborted) =>
        /\ aborted <=> \E pair \in Pairs : MissingSlotOrSystem(pair[1], pair[2])
        /\ \A pair \in Pairs :
            MissingSlotOrSystem(pair[1], pair[2]) => NothingEstimated(pair[1], pair[2])
        /\ ~aborted =>
            \A pair \in Pairs :
                MissingInterFrequencyBias(pair[1], pair[2]) =>
                    Rerun(observations, WithZeroInterFrequencyBias, lastCall.obsDiff)
                        .signals[pair[1]].recvObs[pair[2]].obs
                    = RecvObsOf(pair[1], pair[2]).obs

\* A call that aborted at a receiver observation without receiver slot after it had annotated
\* the receiver observation of the same signal before it
C14_Witness ==
    /\ aborted
    /\ \E satSigId \in SatSigIds :
        /\ <<satSigId, ReceiverType_COUNT>> \in Pairs
        /\ ReceiverType_COUNT \notin DOMAIN receivers
        /\ NothingEstimated(satSigId, ReceiverType_COUNT)
        /\ ~NothingEstimated(satSigId, 0)

(***************************************************************************)
(* Worked scenario.                                                        *)
(***************************************************************************)
\* The pair is at a geometric range of 20 000 000 m with zero relative velocity, zero clock
\* terms, zero Sagnac corrections and, under the models of the last call, zero atmospheric delays
ZeroTermsAtTwentyThousandKm(satSigId, r) ==
    LET recvObs  == RecvObsOf(satSigId, r)
        receiver == receivers[r]
        satSys   == getSatSys(freq(satSigId))
    IN  /\ Abs(recvObs.e_satPos - receiver.e_pos) = 20000000
        /\ recvObs.e_satVel - receiver.e_vel = 0
        /\ receiver.recvClk.bias.value = 0 /\ receiver.recvClk.drift.value = 0
        /\ recvObs.satClock.bias = 0 /\ recvObs.satClock.drift = 0
        /\ receiver.recvClk.sysTimeDiffBias[satSys].value = 0
        /\ receiver.recvClk.sysTimeDiffDrift[satSys].value = 0
        /\ \A f \in DOMAIN receiver.interFrequencyBias : receiver.interFrequencyBias[f].value = 0
        /\ providers.sagnac[satSigId][r] = 0 /\ providers.sagnacRate[satSigId][r] = 0
        /\ \/ lastCall.troposphereModels = "None"
           \/ providers.tropo[satSigId][r].ZHD = 0 /\ providers.tropo[satSigId][r].ZWD = 0
        /\ \/ lastCall.ionosphereModel = "None"
           \/ providers.iono[satSigId][r] = 0

\* C15: with one satellite and one receiver at a geometric range of 20 000 000 m and all
\* velocity, clock, atmosphere and Sagnac terms zero, the pseudorange estimate equals the
\* carrier estimate equals 20 000 000 and the Doppler estimate equals 0, in every difference mode.
C15_ZeroTermsScenario ==
    Annotated =>
        \A satSigId \in SatSigIds, r \in ReceiverSlots, obsDiff \in ObservationDifference :
            ZeroTermsAtTwentyThousandKm(satSigId, r) =>
                /\ ObsData(AnnotatedIn(obsDiff), satSigId, r, "Pseudorange").estimate = 20000000
                /\ ObsData(AnnotatedIn(obsDiff), satSigId, r, "Carrier").estimate = 20000000
                /\ ObsData(AnnotatedIn(obsDiff), satSigId, r, "Doppler").estimate = 0

\* A call with both correction models switched on for a satellite of the scenario on the
\* negative side, next to a satellite whose ionospheric delay is not zero
C15_Witness ==
    /\ Annotated
    /\ lastCall.troposphereModels # "None"
    /\ lastCall.ionosphereModel # "None"
    /\ \E satSigId \in SatSigIds, other \in SatSigIds, r \in ReceiverSlots :
        /\ ZeroTermsAtTwentyThousandKm(satSigId, r)
        /\ RecvObsOf(satSigId, r).e_satPos < receivers[r].e_pos
        /\ ObsData(observations, satSigId, r, "Pseudorange").estimate = 20000000
        /\ ~ZeroTermsAtTwentyThousandKm(other, r)

(***************************************************************************)
(* Correction providers.                                                   *)
(***************************************************************************)
\* The estimates of the pair when the call of the last call's mode is made on a reset copy
\* under the given correction models
EstimatesUnder(satSigId, r, ionosphereModel, troposphereModels) ==
    LET annotated == calcObservationEstimates(ResetCopy(observations), receivers, ionosphereModel,
                                              troposphereModels, lastCall.obsDiff)
    IN  [obsType \in DOMAIN RecvObsOf(satSigId, r).obs |->
            ObsData(annotated, satSigId, r, obsType).estimate]

\* C16: a provider that returns zero is a no-op: when the troposphere provider returns zero
\* zenith delays for a pair, the slant delay that enters its estimates is zero and every
\* estimate is the one obtained with the troposphere switched off; likewise when the
\* ionosphere provider returns a zero delay.
C16_ZeroProviderIsNoOp ==
    Annotated =>
        \A satSigId \in SatSigIds, r \in ReceiverSlots :
            LET estimates == [obsType \in DOMAIN RecvObsOf(satSigId, r).obs |->
                                 ObsData(observations, satSigId, r, obsType).estimate]
                tropo_r_s == calcTroposphericDelayAndMapping(satSigId, r, lastCall.troposphereModels)
            IN  /\ (tropo_r_s.ZHD = 0 /\ tropo_r_s.ZWD = 0) =>
                    /\ RecvObsOf(satSigId, r).terms.dpsr_T_r_s = 0
                    /\ estimates = EstimatesUnder(satSigId, r, lastCall.ionosphereModel, "None")
                /\ calcIonosphericDelay(satSigId, r, lastCall.ionosphereModel) = 0 =>
                    /\ RecvObsOf(satSigId, r).terms.dpsr_I_r_s = 0
                    /\ estimates = EstimatesUnder(satSigId, r, "None", lastCall.troposphereModels)

\* A call with both models switched on in which the troposphere provider returns zero zenith
\* delays with non-zero mapping factors, and the ionosphere provider a zero delay for one
\* signal and a non-zero delay for another
C16_Witness ==
    /\ Annotated
    /\ lastCall.troposphereModels # "None"
    /\ lastCall.ionosphereModel # "None"
    /\ \E satSigId \in SatSigIds, other \in SatSigIds, r \in ReceiverSlots :
        /\ providers.tropo[satSigId][r].ZHD = 0
        /\ providers.tropo[satSigId][r].ZWD = 0
        /\ providers.tropo[satSigId][r].zwdMappingFactor # 0
        /\ providers.iono[satSigId][r] = 0
        /\ providers.iono[other][r] # 0
        /\ RecvObsOf(satSigId, r).terms.dpsr_T_r_s = 0
        /\ RecvObsOf(other, r).terms.dpsr_I_r_s # 0

(***************************************************************************)
(* Independence of the signal/receiver pairs.                              *)
(***************************************************************************)
\* The observation set with other satellite data and stale annotations for every signal but satSigId
WithOtherSignalsChanged(satSigId) ==
    [observations EXCEPT !.signals =
        [s \in DOMAIN observations.signals |->
            IF s = satSigId
            THEN ResetCopy(observations).signals[s]
            ELSE [observations.signals[s] EXCEPT
                    !.satPosVar = @ + 1,
                    !.recvObs = [r \in DOMAIN observations.signals[s].recvObs |->
                        [observations.signals[s].recvObs[r] EXCEPT
                            !.e_satPos = @ + 7,
                            !.e_satVel = @ + 1,
                            !.satElevation = @ + 5,
                            !.satClock = [bias |-> 0, drift |-> 0]]]]]]

\* C17: the (signal, receiver) pairs are independent: what the call writes for a pair depends
\* on the inputs of that pair and the shared inputs only, not on the inputs of or the values
\* written for another signal, so the loop gives the same observation set in whatever order
\* it visits the signals.
C17_PairsIndependent ==
    Annotated =>
        /\ \A order \in SignalOrders(observations) :
            /\ calcObservationEstimatesIn(order, ResetCopy(observations), receivers,
                                          lastCall.ionosphereModel, lastCall.troposphereModels,
                                          lastCall.obsDiff).observations
               = observations
            /\ calcObservationEstimatesIn(order, ResetCopy(observations), receivers,
                                          lastCall.ionosphereModel, lastCall.troposphereModels,
                                          lastCall.obsDiff).observations
               = Rerun(observations, receivers, lastCall.obsDiff)
        /\ \A satSigId \in SatSigIds, order \in SignalOrders(observations) :
            calcObservationEstimatesIn(order, WithOtherSignalsChanged(satSigId), receivers,
                                       lastCall.ionosphereModel, lastCall.troposphereModels,
                                       lastCall.obsDiff).observations.signals[satSigId]
            = observations.signals[satSigId]

\* An annotated set of two signals that can be visited in two orders and whose cached
\* troposphere and ionosphere delays differ
C17_Witness ==
    /\ Annotated
    /\ Cardinality(SignalOrders(observations)) >= 2
    /\ \E satSigId \in SatSigIds, other \in SatSigIds, r \in ReceiverSlots :
        /\ RecvObsOf(satSigId, r).terms.dpsr_T_r_s # RecvObsOf(other, r).terms.dpsr_T_r_s
        /\ RecvObsOf(satSigId, r).terms.dpsr_I_r_s # RecvObsOf(other, r).terms.dpsr_I_r_s

(***************************************************************************)
(* Frame of a call.                                                        *)
(***************************************************************************)
\* C18: a call of calcObservationEstimates changes only the cached correction terms, the
\* estimates and the measVars inside the observation set: the raw measurements, the satellite
\* data, the receiver states, the correction parameters, the model configuration of the
\* estimator and the process-wide time source are as before the call.
C18_CallChangesOnlyAnnotations ==
    [][(/\ observations' # observations \/ lastCall' # lastCall \/ aborted' # aborted
        /\ \E obsDiff \in ObservationDifference : CalcObservationEstimates(obsDiff)) =>
        /\ ResetCopy(observations') = ResetCopy(observations)
        /\ receivers' = receivers
        /\ providers' = providers
        /\ _ionosphereModel' = _ionosphereModel
        /\ _troposphereModels' = _troposphereModels
        /\ timeMode' = timeMode
        /\ currentTime' = currentTime
        /\ currentTimeComputer' = currentTimeComputer]_vars

\* An annotated set whose annotations differ from those of a reset copy, while the time source
\* runs in post-processing mode with a current time set
C18_Witness ==
    /\ Annotated
    /\ observations # ResetCopy(observations)
    /\ timeMode = "POST_PROCESSING"
    /\ currentTime > 0
    /\ currentTimeComputer > 0

(***************************************************************************)
(* Exhaustive handling of the observables.                                 *)
(***************************************************************************)
\* The observation set with a marker in place of every estimate and measVar
Marked(obsSet) ==
    [obsSet EXCEPT !.signals =
        [satSigId \in DOMAIN obsSet.signals |->
            [obsSet.signals[satSigId] EXCEPT !.recvObs =
                [r \in DOMAIN obsSet.signals[satSigId].recvObs |->
                    [obsSet.signals[satSigId].recvObs[r] EXCEPT
                        !.obs = [obsType \in DOMAIN obsSet.signals[satSigId].recvObs[r].obs |->
                                    [obsSet.signals[satSigId].recvObs[r].obs[obsType] EXCEPT
                                        !.estimate = -1, !.measVar = Variance(-1, -1)]]]]]]]

\* C19: when calcObservationEstimates returns, every Pseudorange, Carrier and Doppler entry
\* present in a receiver observation has had its estimate and its measVar assigned by this
\* call (the values do not depend on what the entry held before and are those the call
\* writes over a marker), and the set holds the same signals, receiver observations and
\* observable entries as before.
C19_EveryEntryAssigned ==
    [][\A obsDiff \in ObservationDifference :
        (CalcObservationEstimates(obsDiff) /\ ~aborted') =>
            LET onMarked == calcObservationEstimates(Marked(observations), receivers,
                                                     _ionosphereModel, _troposphereModels, obsDiff)
            IN  /\ DOMAIN observations'.signals = DOMAIN observations.signals
                /\ \A satSigId \in DOMAIN observations.signals :
                    /\ DOMAIN observations'.signals[satSigId].recvObs
                       = DOMAIN observations.signals[satSigId].recvObs
                    /\ \A r \in DOMAIN observations.signals[satSigId].recvObs :
                        /\ DOMAIN observations'.signals[satSigId].recvObs[r].obs
                           = DOMAIN observations.signals[satSigId].recvObs[r].obs
                        /\ \A obsType \in DOMAIN observations.signals[satSigId].recvObs[r].obs :
                            /\ obsType \in ObservationTypes
                            /\ ObsData(observations', satSigId, r, obsType).estimate
                               = ObsData(onMarked, satSigId, r, obsType).estimate
                            /\ ObsData(observations', satSigId, r, obsType).measVar
                               = ObsData(onMarked, satSigId, r, obsType).measVar
                            /\ ObsData(observations', satSigId, r, obsType).estimate # -1
                            /\ ObsData(observations', satSigId, r, obsType).measVar # Variance(-1, -1)]_vars

\* An annotated set in which one signal carries a Doppler entry and another carries none, and
\* every entry present holds a non-zero estimate and variance
C19_Witness ==
    /\ Annotated
    /\ \E satSigId \in SatSigIds, other \in SatSigIds, r \in ReceiverSlots :
        /\ "Doppler" \in DOMAIN RecvObsOf(satSigId, r).obs
        /\ DOMAIN RecvObsOf(other, r).obs = {"Pseudorange", "Carrier"}
    /\ \A satSigId \in SatSigIds, r \in ReceiverSlots :
        \A obsType \in DOMAIN RecvObsOf(satSigId, r).obs :
            /\ ObsData(observations, satSigId, r, obsType).estimate # 0
            /\ ObsData(observations, satSigId, r, obsType).measVar.m2 > 0

(***************************************************************************)
(* Cached correction terms.                                                *)
(***************************************************************************)
\* The clock terms of the pseudorange (withInterFrequencyBias) or carrier estimate of a pair
\* as the last call formed them, in seconds
ClockTermsOfLastCall(satSigId, r, withInterFrequencyBias) ==
    LET recvClk == receivers[r].recvClk
        f       == freq(satSigId)
    IN  recvClk.bias.value * AsNumber(lastCall.obsDiff # "DoubleDifference")
        - RecvObsOf(satSigId, r).satClock.bias * AsNumber(lastCall.obsDiff = "NoDifference")
        + recvClk.sysTimeDiffBias[getSatSys(f)].value
        + (IF withInterFrequencyBias /\ f \in DOMAIN receivers[r].interFrequencyBias
           THEN receivers[r].interFrequencyBias[f].value
           ELSE 0)

\* C20: after a call the cached terms of every pair (rho_r_s, dpsr_T_r_s, dpsr_I_r_s,
\* dpsr_ie_r_s) hold exactly the values that formed the pair's pseudorange and carrier
\* estimates in that call, and dpsr_T_r_s = ZHD x hydrostatic mapping factor + ZWD x wet
\* mapping factor of the cached zenith delays.
C20_CachedTermsAreTheTermsUsed ==
    Annotated =>
        \A satSigId \in SatSigIds, r \in ReceiverSlots :
            LET terms == RecvObsOf(satSigId, r).terms
                tropo_r_s == terms.tropoZenithDelay
            IN  /\ tropo_r_s = calcTroposphericDelayAndMapping(satSigId, r, lastCall.troposphereModels)
                /\ terms.dpsr_T_r_s = tropo_r_s.ZHD * tropo_r_s.zhdMappingFactor
                                      + tropo_r_s.ZWD * tropo_r_s.zwdMappingFactor
                /\ terms.rho_r_s = Abs(RecvObsOf(satSigId, r).e_satPos - receivers[r].e_pos)
                /\ terms.dpsr_I_r_s = calcIonosphericDelay(satSigId, r, lastCall.ionosphereModel)
                /\ terms.dpsr_ie_r_s = calcSagnacCorrection(satSigId, r)
                /\ ObsData(observations, satSigId, r, "Pseudorange").estimate
                   - C * ClockTermsOfLastCall(satSigId, r, TRUE)
                   = terms.rho_r_s + terms.dpsr_ie_r_s + terms.dpsr_T_r_s + terms.dpsr_I_r_s
                /\ ObsData(observations, satSigId, r, "Carrier").estimate
                   - C * ClockTermsOfLastCall(satSigId, r, FALSE)
                   = terms.rho_r_s + terms.dpsr_ie_r_s + terms.dpsr_T_r_s - terms.dpsr_I_r_s

\* An annotated pair whose four cached terms are non-zero and whose zenith delays and mapping
\* factors are pairwise different
C20_Witness ==
    /\ Annotated
    /\ \E satSigId \in SatSigIds, r \in ReceiverSlots :
        LET terms == RecvObsOf(satSigId, r).terms
        IN  /\ terms.rho_r_s # 0 /\ terms.dpsr_T_r_s # 0
            /\ terms.dpsr_I_r_s # 0 /\ terms.dpsr_ie_r_s # 0
            /\ terms.tropoZenithDelay.ZHD # terms.tropoZenithDelay.ZWD
            /\ terms.tropoZenithDelay.zhdMappingFactor # terms.tropoZenithDelay.zwdMappingFactor
            /\ terms.tropoZenithDelay.ZWD # 0

(***************************************************************************)
(* Monotonicity in the carrier-to-noise density.                           *)
(***************************************************************************)
\* Carrier-to-noise densities a receiver may report for a signal, absent included
Cn0Options ==
    {[has_value |-> FALSE, value |-> 0]} \cup {[has_value |-> TRUE, value |-> v] : v \in {1, 20, 40, 45}}

\* The observation set with another CN0 for the receiver observations of signal satSigId
WithCn0(satSigId, cn0) ==
    [observations EXCEPT !.signals[satSigId].recvObs =
        [r \in DOMAIN observations.signals[satSigId].recvObs |->
            [observations.signals[satSigId].recvObs[r] EXCEPT !.CN0 = cn0]]]

\* C21: with everything else fixed, a higher CN0 of a signal (an absent CN0 counting as 1.0)
\* never gives a higher pseudorange or carrier measVar, in any difference mode: compared with
\* the call on the same inputs with another CN0, the measVar of the call is at least as high
\* when the other CN0 is at least as high, and at most as high when it is at most as high.
C21_VarianceMonotoneInCn0 ==
    Annotated =>
        \A satSigId \in SatSigIds, r \in ReceiverSlots, obsType \in {"Pseudorange", "Carrier"},
           cn0 \in Cn0Options :
            LET measVar == ObsData(observations, satSigId, r, obsType).measVar
                other   == ObsData(Rerun(WithCn0(satSigId, cn0), receivers, lastCall.obsDiff),
                                   satSigId, r, obsType).measVar
                here    == Cn0Of(RecvObsOf(satSigId, r))
                there   == IF cn0.has_value THEN cn0.value ELSE 1
            IN  /\ there >= here => VarAtLeast(measVar, other)
                /\ there <= here => VarAtLeast(other, measVar)

\* A call in NoDifference on a signal without CN0 whose pseudorange and carrier measVar are
\* strictly lower when the signal reports a CN0 of 40
C21_Witness ==
    /\ lastCall.obsDiff = "NoDifference"
    /\ \E satSigId \in SatSigIds, r \in ReceiverSlots :
        /\ ~RecvObsOf(satSigId, r).CN0.has_value
        /\ \A obsType \in {"Pseudorange", "Carrier"} :
            ObsData(Rerun(WithCn0(satSigId, [has_value |-> TRUE, value |-> 40]), receivers,
                          lastCall.obsDiff), satSigId, r, obsType).measVar.m2
            < ObsData(observations, satSigId, r, obsType).measVar.m2

(***************************************************************************)
(* The process-wide time source.                                           *)
(***************************************************************************)
\* C22: in POST_PROCESSING mode GetCurrentTime returns exactly the stored (last accepted) time,
\* however far the steady clock has advanced; in REAL_TIME mode it returns the stored time plus
\* the steady-clock time elapsed since that time was accepted; while no time is set it returns
\* the empty time in both modes.  A step of the steady clock leaves the returned value alone
\* when the source is frozen or empty and moves it by the same amount when it is free-running,
\* and at the moment a time is accepted the returned value is that time.
C22_FrozenOrFreeRunning ==
    /\ [](/\ currentTime = 0 => GetCurrentTime = 0
          /\ (currentTime # 0 /\ timeMode = "POST_PROCESSING") => GetCurrentTime = currentTime
          /\ (currentTime # 0 /\ timeMode = "REAL_TIME") =>
                 GetCurrentTime = currentTime + (steadyClock - currentTimeComputer))
    /\ [][/\ steadyClock' # steadyClock =>
                 GetCurrentTime' = IF timeMode = "POST_PROCESSING" \/ currentTime = 0
                                   THEN GetCurrentTime
                                   ELSE GetCurrentTime + (steadyClock' - steadyClock)
          /\ currentTime' > currentTime =>
                 /\ currentTimeComputer' = steadyClock
                 /\ GetCurrentTime' = currentTime'
          /\ (currentTime' = 0 /\ currentTime # 0) => GetCurrentTime' = 0]_vars

\* A frozen source long after its time was accepted
C22_Witness ==
    /\ timeMode = "POST_PROCESSING"
    /\ currentTime = 1
    /\ currentTimeComputer = 0
    /\ steadyClock = MaxTime
    /\ GetCurrentTime = 1

\* C24: SetCurrentTime(t) replaces the stored time and captures the reference instant anew
\* only when t is strictly later than the stored time; otherwise the stored time, the
\* reference instant and the mode are unchanged.  Hence the stored time changes only by
\* growing or by being cleared.
C24_SetCurrentTimeOnlyForward ==
    [][/\ \A insTime \in 0..MaxTime :
              SetCurrentTime(insTime) =>
                  /\ timeMode' = timeMode
                  /\ IF insTime > currentTime
                     THEN /\ currentTime' = insTime
                          /\ currentTimeComputer' = steadyClock
                     ELSE /\ currentTime' = currentTime
                          /\ currentTimeComputer' = currentTimeComputer
       /\ currentTime' # currentTime => (currentTime' > currentTime \/ currentTime' = 0)
       /\ currentTimeComputer' # currentTimeComputer => currentTime' > currentTime]_vars

\* A second update was accepted after the steady clock had advanced
C24_Witness ==
    /\ currentTime > 1
    /\ currentTimeComputer > 0
    /\ steadyClock > currentTimeComputer

\* C25: in REAL_TIME mode, over a step that neither clears the time nor changes the mode, the
\* value returned by GetCurrentTime does not decrease.
C25_ReportedTimeNeverDecreases ==
    [][(/\ timeMode = "REAL_TIME"
        /\ timeMode' = "REAL_TIME"
        /\ ~(currentTime' = 0 /\ currentTime # 0)) =>
        GetCurrentTime' >= GetCurrentTime]_vars

(***************************************************************************)
(* The configuration map.                                                  *)
(***************************************************************************)
\* C23: ConfigManager::Get(key, defaultValue) returns the stored value when the key exists and
\* the default otherwise, and no call of it (nor any other step of the program) changes the
\* configuration map.
C23_GetReturnsStoredOrDefault ==
    [][/\ vm' = vm
       /\ \A defaultValue \in {"", "flow/Other.flow"} :
              GetOption("load", defaultValue) =>
                  got' = IF HasKey("load") THEN vm["load"] ELSE defaultValue
       /\ \A outcome \in LoadOutcomes :
              (LoadFlowNoGui(outcome) \/ LoadFlowGui(outcome)) => got' = vm["load"]]_vars

\* Get has returned the default for a key the map does not hold
C23_Witness ==
    /\ ~HasKey("load")
    /\ got = "flow/Other.flow"

(***************************************************************************)
(* The run without GUI.                                                    *)
(***************************************************************************)
\* The calls made so far
Called == {calls[i] : i \in DOMAIN calls}

\* call was made, and an earlier call was earlier
CalledAfter(call, earlier) ==
    \E i \in DOMAIN calls : \E k \in DOMAIN calls : i < k /\ calls[i] = earlier /\ calls[k] = call

\* How often call was made
TimesCalled(call) == Cardinality({i \in DOMAIN calls : calls[i] = call})

\* C26: in No-GUI mode with a flow file FlowExecutor::start is called only after LoadFlow has
\* returned true; when LoadFlow returns false or throws, the function returns EXIT_FAILURE and
\* the executor is not started; when LoadFlow throws, all nodes are deleted before the return.
C26_StartOnlyAfterSuccessfulLoad ==
    GetAs("nogui") =>
        /\ "FlowExecutor::start" \in Called =>
               CalledAfter("FlowExecutor::start", "LoadFlow: true")
        /\ executor # "idle" => "LoadFlow: true" \in Called
        /\ ("LoadFlow: false" \in Called \/ "LoadFlow: throws" \in Called) =>
               /\ pc = "returned"
               /\ exitCode = "EXIT_FAILURE"
               /\ "FlowExecutor::start" \notin Called
               /\ executor = "idle"
        /\ "LoadFlow: throws" \in Called =>
               /\ CalledAfter("DeleteAllNodes", "LoadFlow: throws")
               /\ nodes = ""

\* LoadFlow has thrown in No-GUI mode
C26_Witness ==
    /\ GetAs("nogui")
    /\ "LoadFlow: throws" \in Called
    /\ pc = "returned"

\* The calls that make up the run and its cleanup
IsRunCall(call) ==
    call \in {"FlowExecutor::start", "FlowExecutor::stop", "FlowExecutor::waitForFinish",
              "DisableAllCallbacks", "DeleteAllNodes"}

\* s is an initial piece of t
IsPrefix(s, t) == Len(s) <= Len(t) /\ \A i \in DOMAIN s : s[i] = t[i]

\* C27: in No-GUI mode after a successful load the order is: FlowExecutor::start, the end of
\* the run (FlowExecutor::stop issued by the interrupt thread, which is joined, or
\* FlowExecutor::waitForFinish returning), DisableAllCallbacks, DeleteAllNodes, return of
\* EXIT_SUCCESS; the callbacks are never disabled and the nodes never deleted while the
\* interrupt thread is still running or before the executor has stopped or finished.
C27_RunThenCleanup ==
    (GetAs("nogui") /\ "LoadFlow: true" \in Called) =>
        LET run == SelectSeq(calls, IsRunCall)
        IN /\ \/ IsPrefix(run, <<"FlowExecutor::start", "FlowExecutor::stop",
                                 "DisableAllCallbacks", "DeleteAllNodes">>)
              \/ IsPrefix(run, <<"FlowExecutor::start", "FlowExecutor::waitForFinish",
                                 "DisableAllCallbacks", "DeleteAllNodes">>)
           /\ Len(run) >= 1
           /\ exitCode # "EXIT_FAILURE"
           /\ (pc = "returned") = (Len(run) = 4)
           /\ (pc = "returned") = (exitCode = "EXIT_SUCCESS")
           /\ (~callbacksEnabled \/ pc \in {"DisableAllCallbacks", "DeleteAllNodes", "returned"}) =>
                  /\ interruptThread \in {"not started", "finished"}
                  /\ \/ "FlowExecutor::stop" \in Called
                     \/ "FlowExecutor::waitForFinish" \in Called
           /\ nodes = "" => (~callbacksEnabled /\ pc = "returned")

\* A run that the interrupt thread has stopped and that was cleaned up
C27_Witness ==
    /\ GetAs("nogui")
    /\ "FlowExecutor::stop" \in Called
    /\ exitCode = "EXIT_SUCCESS"
    /\ nodes = ""

\* C28: the options decide how the run ends.  With 'sigterm' the executor is stopped only
\* after the signal and the count-down of 'duration' is never started, even for a non-zero
\* duration; without 'sigterm' and with a non-zero 'duration' it is stopped after the
\* count-down; with neither, stop is never called and the function waits for the executor to
\* finish.  FlowExecutor::stop is called at most once.
C28_OptionsDecideTheEnd ==
    GetAs("nogui") =>
        /\ TimesCalled("FlowExecutor::stop") <= 1
        /\ GetAs("sigterm") =>
               /\ "Sleep::countDownSeconds" \notin Called
               /\ countDown = 0
               /\ "FlowExecutor::waitForFinish" \notin Called
               /\ "FlowExecutor::stop" \in Called =>
                      CalledAfter("FlowExecutor::stop", "Sleep::waitForSignal")
               /\ pc \in {"DisableAllCallbacks", "DeleteAllNodes"} =>
                      "FlowExecutor::stop" \in Called
        /\ (~GetAs("sigterm") /\ GetAs("duration") # 0) =>
               /\ "Sleep::waitForSignal" \notin Called
               /\ "FlowExecutor::waitForFinish" \notin Called
               /\ "FlowExecutor::stop" \in Called =>
                      /\ CalledAfter("FlowExecutor::stop", "Sleep::countDownSeconds")
                      /\ countDown = 0
               /\ pc \in {"DisableAllCallbacks", "DeleteAllNodes"} =>
                      "FlowExecutor::stop" \in Called
        /\ (~GetAs("sigterm") /\ GetAs("duration") = 0) =>
               /\ "FlowExecutor::stop" \notin Called
               /\ interruptThread = "not started"
               /\ pc \in {"DisableAllCallbacks", "DeleteAllNodes"} =>
                      "FlowExecutor::waitForFinish" \in Called

\* With 'sigterm' and a non-zero 'duration' the signal has ended the run
C28_Witness ==
    /\ GetAs("nogui")
    /\ GetAs("sigterm")
    /\ GetAs("duration") # 0
    /\ "FlowExecutor::stop" \in Called

\* C29: in No-GUI mode without the option 'load' no flow is loaded, the executor is never
\* started, a critical message is logged and the function returns EXIT_SUCCESS; likewise in
\* GUI mode when the window cannot be created a critical message is logged and EXIT_SUCCESS
\* is returned.
C29_NothingToRunIsSuccess ==
    /\ (GetAs("nogui") /\ ~HasKey("load")) =>
           /\ Called \subseteq {"LOG_CRITICAL"}
           /\ executor = "idle"
           /\ nodes = ""
           /\ pc \in {"processCommandLineArguments", "returned"}
           /\ pc = "returned" => (calls = <<"LOG_CRITICAL">> /\ exitCode = "EXIT_SUCCESS")
    /\ "app.Create: false" \in Called =>
           /\ calls = <<"app.Create: false", "LOG_CRITICAL">>
           /\ pc = "returned"
           /\ exitCode = "EXIT_SUCCESS"
           /\ executor = "idle"
           /\ nodes = ""

\* The function has returned from No-GUI mode without a flow file
C29_Witness ==
    /\ GetAs("nogui")
    /\ ~HasKey("load")
    /\ pc = "returned"
    /\ exitCode = "EXIT_SUCCESS"

(***************************************************************************)
(* ImuPos and its json form.                                               *)
(***************************************************************************)
\* C30: reading the json object that to_json wrote for an ImuPos into a default-constructed
\* ImuPos restores all six fields, every key that to_json writes being one that from_json
\* reads; a key that is absent from the json object leaves its field as it was.
C30_JsonRoundTrip ==
    [][(/\ json' = json
        /\ imuPos' = imuPos
        /\ restored' = from_json(json, restored)) =>
        /\ (json = to_json(imuPos) /\ restored = DefaultImuPos) => restored' = imuPos
        /\ \A key \in DOMAIN to_json(imuPos) :
               key \notin DOMAIN json =>
                   to_json(restored')[key] = to_json(restored)[key]]_vars

====
